---- MODULE Spec2Model ----
(***************************************************************************)
(* A model of mkdocs_kustomize/plugin.py: the KustomizePlugin life cycle   *)
(* (on_config, on_files, on_page_markdown) and the directive pipeline of   *)
(* on_page_markdown.replace_match: directory resolution, the builder       *)
(* subprocess, the override merge and the resource analysis.               *)
(*                                                                         *)
(* Text.  A text is a sequence of lines and a line is a sequence of string *)
(* fragments: the pieces an f-string concatenates.  A fence line starts    *)
(* with the fragment of three backticks.                                   *)
(*                                                                         *)
(* Python values.  A YAML value is a tagged record: Str(s), None,          *)
(* Dict(d) with d a function from keys to values, or List.  A Python call  *)
(* that may raise yields Ok(v) or Raise(exception class name).             *)
(***************************************************************************)
EXTENDS Integers, Sequences, FiniteSets, TLC

VARIABLES
    config,                  \* self.config: enable_rendering, kustomize_dirs, auto_nav_path
    _kustomize_path_mapping, \* self._kustomize_path_mapping (the discovery table)
    fs,                      \* the file system: existing directory |-> names of the files in it
    kustomize,               \* the builder tool: whether installed, and what a build prints
    phase,                   \* life-cycle position of the plugin
    markdown,                \* the markdown argument of the running on_page_markdown call
    rest,                    \* re.sub: the text not yet scanned
    out,                     \* re.sub: the output assembled so far
    calls,                   \* the subprocess.run invocations made by the running call
    matches,                 \* per match found: the directive and what replace_match did
    result,                  \* what the running call returned or raised
    analyzed,                \* the resources of a direct analyze_resources call
    browser,                 \* the browser a rendered page is loaded in (<<>>: none)
    readme,                  \* the file system: directory |-> the text of its README.md
    files                    \* the virtual files on_files appended: src_path |-> content_string

vars == <<config, _kustomize_path_mapping, fs, kustomize, phase, markdown, rest, out,
          calls, matches, result, analyzed, browser, readme, files>>

----------------------------------------------------------------------------
(* Bounds of the model.                                                    *)

MaxDirectives == 2      \* directives in one page text
MaxDocs == 2            \* documents in one builder stream
MaxResources == 3       \* entries of the list a direct analyze_resources call is given
MaxTables == 2          \* analysis tables on one page in the browser
MaxTransitions == 2     \* page loads and location changes of one browser session
MaxTimeouts == 2        \* pending timers for initializeYamlToggles

----------------------------------------------------------------------------
(* Python values and exceptions.                                           *)

Str(s) == [t |-> "str", s |-> s]
None == [t |-> "none"]
List == [t |-> "list"]
Dict(d) == [t |-> "dict", d |-> d]
EmptyDict == Dict(<<>>)

isinstance_dict(v) == v.t = "dict"

\* Python truthiness of a loaded YAML value (override_yaml in "if override_yaml and ...").
Truthy(v) ==
    CASE v.t = "none" -> FALSE
      [] v.t = "dict" -> DOMAIN v.d # {}
      [] v.t = "str" -> v.s # ""
      [] OTHER -> TRUE

Ok(v) == [ok |-> TRUE, v |-> v]
Raise(e) == [ok |-> FALSE, exc |-> e]

\* v.get(key, default): defined on dicts only; any other receiver raises AttributeError.
Get(v, key, default) ==
    IF ~isinstance_dict(v) THEN Raise("AttributeError")
    ELSE IF key \in DOMAIN v.d THEN Ok(v.d[key]) ELSE Ok(default)

\* target.update(override): every key of override is set in target, the others stay.
Update(target, override) ==
    Dict([k \in (DOMAIN target.d) \cup (DOMAIN override.d) |->
            IF k \in DOMAIN override.d THEN override.d[k] ELSE target.d[k]])

----------------------------------------------------------------------------
(* The YAML subset of the model.  Every YAML line is a line of one         *)
(* fragment taken from YamlLine, which gives what the PyYAML scanner makes *)
(* of it: a top-level "key: value" entry, a top-level "key:" that opens a  *)
(* nested block, an indented entry of such a block, a document separator,  *)
(* a sequence item, a comment or blank line, or a line the scanner         *)
(* rejects.  canon marks the line yaml.dump writes for the entry.          *)

Entry(k, v, c) == [kind |-> "entry", k |-> k, v |-> v, canon |-> c]
Open(k) == [kind |-> "open", k |-> k, v |-> None, canon |-> TRUE]
Nested(k, v) == [kind |-> "nested", k |-> k, v |-> v, canon |-> TRUE]
Other(kind) == [kind |-> kind, k |-> "", v |-> None, canon |-> FALSE]

YamlLine ==
    [ f \in {"apiVersion: v1", "apiVersion: apps/v1", "apiVersion: /v1",
             "apiVersion: a/b/v1", "apiVersion: null", "  namespace: null",
             "kind: ConfigMap", "kind: Secret", "data: old",
             "metadata:", "data:", "metadata: {name: cm}", "metadata: null",
             "  name: cm", "  name: other", "  namespace: ns",
             "  k: old", "  k: new", "  j: 1",
             "---", "- item", "# comment", "", "data: [unclosed"} |->
        CASE f = "apiVersion: v1" -> Entry("apiVersion", Str("v1"), TRUE)
          [] f = "apiVersion: apps/v1" -> Entry("apiVersion", Str("apps/v1"), TRUE)
          [] f = "apiVersion: /v1" -> Entry("apiVersion", Str("/v1"), TRUE)
          [] f = "apiVersion: a/b/v1" -> Entry("apiVersion", Str("a/b/v1"), TRUE)
          [] f = "apiVersion: null" -> Entry("apiVersion", None, TRUE)
          [] f = "  namespace: null" -> Nested("namespace", None)
          [] f = "kind: ConfigMap" -> Entry("kind", Str("ConfigMap"), TRUE)
          [] f = "kind: Secret" -> Entry("kind", Str("Secret"), TRUE)
          [] f = "data: old" -> Entry("data", Str("old"), TRUE)
          [] f = "metadata:" -> Open("metadata")
          [] f = "data:" -> Open("data")
          [] f = "metadata: {name: cm}" ->
                Entry("metadata", Dict([name |-> Str("cm")]), FALSE)
          [] f = "metadata: null" -> Entry("metadata", None, TRUE)
          [] f = "  name: cm" -> Nested("name", Str("cm"))
          [] f = "  name: other" -> Nested("name", Str("other"))
          [] f = "  namespace: ns" -> Nested("namespace", Str("ns"))
          [] f = "  k: old" -> Nested("k", Str("old"))
          [] f = "  k: new" -> Nested("k", Str("new"))
          [] f = "  j: 1" -> Nested("j", Str("1"))
          [] f = "---" -> Other("sep")
          [] f = "- item" -> Other("item")
          [] f = "# comment" -> Other("skip")
          [] f = "" -> Other("skip")
          [] f = "data: [unclosed" -> Other("bad") ]

\* What the scanner makes of a line of text; a line that is no YAML line of the
\* subset (a fence, a directive) is one the scanner rejects.
Scan(line) ==
    IF Len(line) = 1 /\ line[1] \in DOMAIN YamlLine THEN YamlLine[line[1]] ELSE Other("bad")

\* Keys in the order yaml.dump writes them (sort_keys defaults to True).
SortedKeys == <<"apiVersion", "data", "j", "k", "kind", "metadata", "name", "namespace">>

RECURSIVE SplitAtSep(_)
\* The lines of a stream cut at every "---": at least one (possibly empty) document.
SplitAtSep(lines) ==
    LET seps == {i \in 1..Len(lines) : Scan(lines[i]).kind = "sep"}
        Cut(i) == <<SubSeq(lines, 1, i - 1)>> \o SplitAtSep(SubSeq(lines, i + 1, Len(lines)))
    IN IF seps = {} THEN <<lines>>
       ELSE Cut(CHOOSE i \in seps : \A j \in seps : i <= j)

\* The documents of a stream: comments and blank lines dropped, a leading "---" is the
\* explicit start of the first document, an empty stream has no document.
Documents(text) ==
    LET Docs(lines) ==
            IF lines = <<>> THEN <<>>
            ELSE IF Scan(Head(lines)).kind = "sep" THEN SplitAtSep(Tail(lines))
            ELSE SplitAtSep(lines)
    IN Docs(SelectSeq(text, LAMBDA l : Scan(l).kind # "skip"))

\* d with key k set to v.
Put(d, k, v) == [x \in (DOMAIN d) \cup {k} |-> IF x = k THEN v ELSE d[x]]

RECURSIVE ComposeMapping(_, _, _, _)
\* The mapping of a block of entry lines: d is the mapping built so far and cur the
\* key whose nested block is open ("" when none is).  A repeated key takes the last
\* value, as the PyYAML constructor does.
ComposeMapping(lines, i, d, cur) ==
    LET Step(l) ==
            CASE l.kind = "entry" -> ComposeMapping(lines, i + 1, Put(d, l.k, l.v), "")
              [] l.kind = "open" -> ComposeMapping(lines, i + 1, Put(d, l.k, None), l.k)
              [] l.kind = "nested" /\ cur # "" ->
                    ComposeMapping(lines, i + 1,
                        Put(d, cur, Update(IF isinstance_dict(d[cur]) THEN d[cur] ELSE EmptyDict,
                                           Dict((l.k :> l.v)))),
                        cur)
              [] OTHER -> Raise("YAMLError")
    IN IF i > Len(lines) THEN Ok(Dict(d)) ELSE Step(Scan(lines[i]))

\* One document: empty is None, a block of "- item" lines is a list, else a mapping.
LoadDocument(lines) ==
    IF lines = <<>> THEN Ok(None)
    ELSE IF \A i \in 1..Len(lines) : Scan(lines[i]).kind = "item" THEN Ok(List)
    ELSE ComposeMapping(lines, 1, <<>>, "")

\* list(yaml.safe_load_all(text)): every document, or YAMLError when one is malformed.
safe_load_all(text) ==
    LET Collect(loaded) ==
            IF \E i \in DOMAIN loaded : ~loaded[i].ok THEN Raise("YAMLError")
            ELSE Ok([i \in DOMAIN loaded |-> loaded[i].v])
        Load(docs) == Collect([i \in 1..Len(docs) |-> LoadDocument(docs[i])])
    IN Load(Documents(text))

\* yaml.safe_load(text): the single document of the text (None when there is none);
\* a second document is a ComposerError, which is a YAMLError.
safe_load(text) ==
    LET Single(docs) ==
            IF Len(docs) = 0 THEN Ok(None)
            ELSE IF Len(docs) > 1 THEN Raise("YAMLError")
            ELSE LoadDocument(docs[1])
    IN Single(Documents(text))

\* The line yaml.dump writes for one entry.
CanonicalLine(kind, k, v) ==
    <<CHOOSE f \in DOMAIN YamlLine :
        /\ YamlLine[f].kind = kind /\ YamlLine[f].k = k
        /\ YamlLine[f].canon
        /\ kind # "open" => YamlLine[f].v = v>>

RECURSIVE DumpEntries(_, _, _)
\* The entries of mapping d in sorted key order, block style (default_flow_style=False):
\* a nested mapping is written as "key:" followed by its indented entries.
DumpEntries(d, i, nested) ==
    LET One(k, v) ==
            IF nested THEN <<CanonicalLine("nested", k, v)>>
            ELSE IF isinstance_dict(v) /\ DOMAIN v.d # {}
            THEN <<CanonicalLine("open", k, None)>> \o DumpEntries(v.d, 1, TRUE)
            ELSE <<CanonicalLine("entry", k, v)>>
    IN IF i > Len(SortedKeys) THEN <<>>
       ELSE (IF SortedKeys[i] \in DOMAIN d THEN One(SortedKeys[i], d[SortedKeys[i]]) ELSE <<>>)
            \o DumpEntries(d, i + 1, nested)

\* yaml.dump(doc, default_flow_style=False): a mapping in block style; None is written
\* as "null" with the end-of-document mark, a list as its items.
dump(doc) ==
    CASE doc.t = "dict" -> DumpEntries(doc.d, 1, FALSE)
      [] doc.t = "none" -> << <<"null">>, <<"...">> >>
      [] OTHER -> << <<"- item">> >>

RECURSIVE dump_all(_)
\* yaml.dump_all(docs, default_flow_style=False): the documents separated by "---".
dump_all(docs) ==
    IF docs = <<>> THEN <<>>
    ELSE IF Len(docs) = 1 THEN dump(docs[1])
    ELSE dump(docs[1]) \o <<<<"---">>>> \o dump_all(Tail(docs))

----------------------------------------------------------------------------
(* Paths.  A path is a string; os.path works on the paths of the model by  *)
(* table.                                                                  *)

AbsolutePaths == {"/abs/app"}
RelativePaths == {"app", "lib", "r1", "r2", "nav", "nav/app", "nav/lib", "nav/app/base",
                  "nav/app[1]", "r1/app", "r2/app", "r1/lib", "r2/lib"}

isabs(p) == p \in AbsolutePaths

\* os.path.join(base, p): an absolute p discards base.
join(base, p) ==
    IF isabs(p) THEN p
    ELSE CHOOSE q \in RelativePaths :
            \E b \in {"r1", "r2", "nav"}, n \in {"app", "lib"} :
                /\ base = b /\ p = n
                /\ q = (CASE b = "r1" /\ n = "app" -> "r1/app"
                          [] b = "r1" /\ n = "lib" -> "r1/lib"
                          [] b = "r2" /\ n = "app" -> "r2/app"
                          [] b = "r2" /\ n = "lib" -> "r2/lib"
                          [] b = "nav" /\ n = "app" -> "nav/app"
                          [] b = "nav" /\ n = "lib" -> "nav/lib")

\* os.path.isdir(p), os.path.exists(p) for a directory path.
isdir(p) == p \in DOMAIN fs

----------------------------------------------------------------------------
(* The directive scanner: re.sub(pattern, replace_match, markdown), the    *)
(* pattern being, with F for the fence of three backticks,                 *)
(*   Fkustomize\s+([^[\n]+)(?:\s+\[([^\]]+)\])?\n(.*?)F                   *)
(* on texts whose directives start a line:                                 *)
(*   <<F, "kustomize", " ", token>>                                        *)
(*   <<F, "kustomize", " ", token, " ", "[", option, ",", ..., "]">>       *)

\* The fragment that stands for the three backticks of a fence.
Fence == "<fence>"

Whitespace == {" ", ""}

\* [^[\n]+ stripped: a path token is a fragment that is no bracket and no blank.
IsPathToken(f) == f \notin Whitespace \cup {"[", "]", ",", Fence}

\* The option fragments between the brackets: match.group(2) split at the commas.
OptionsOf(line) ==
    IF Len(line) <= 4 THEN <<>>
    ELSE SelectSeq(SubSeq(line, 7, Len(line) - 1), LAMBDA f : f # ",")

\* Whether the head of the pattern, up to the newline, matches the whole line.
IsOpener(line) ==
    /\ Len(line) >= 4
    /\ line[1] = Fence /\ line[2] = "kustomize" /\ line[3] = " "
    /\ IsPathToken(line[4])
    /\ \/ Len(line) = 4
       \/ /\ Len(line) >= 8
          /\ line[5] = " " /\ line[6] = "[" /\ line[Len(line)] = "]"
          /\ \A i \in 7..(Len(line) - 1) : line[i] \notin {"[", "]"}
          /\ \A i \in 7..(Len(line) - 1) : (line[i] = ",") <=> (i % 2 = 0)

\* A line on which the lazy body (.*?) stops: it starts with three backticks.
HasFence(line) == Len(line) >= 1 /\ line[1] = Fence

\* The leftmost match of the pattern in text, if any: the opener at line start, the
\* body up to the first fence after it, that fence at line end.  What follows the
\* backticks of that fence on its line (after) is not part of the match.
FindMatch(text) ==
    LET Match(i, j) ==
            [found |-> TRUE, start |-> i, end |-> j,
             group1 |-> text[i][4],
             group2 |-> OptionsOf(text[i]),
             group3 |-> SubSeq(text, i + 1, j - 1),
             after |-> Tail(text[j])]
        From(i) == Match(i, CHOOSE x \in (i + 1)..Len(text) :
                                /\ HasFence(text[x])
                                /\ \A y \in (i + 1)..(x - 1) : ~HasFence(text[y]))
        First(starts) ==
            IF starts = {} THEN [found |-> FALSE]
            ELSE From(CHOOSE x \in starts : \A y \in starts : x <= y)
    IN First({i \in 1..Len(text) :
                /\ IsOpener(text[i])
                /\ \E j \in (i + 1)..Len(text) : HasFence(text[j])})

\* str.strip() of a block of lines: the blank lines at both ends go.
RECURSIVE strip(_)
strip(lines) ==
    IF lines = <<>> THEN <<>>
    ELSE IF Head(lines) \in {<<"">>, <<>>} THEN strip(Tail(lines))
    ELSE IF lines[Len(lines)] \in {<<"">>, <<>>} THEN strip(SubSeq(lines, 1, Len(lines) - 1))
    ELSE lines

\* The option fragments of the model: key, whether an "=" follows it, and the value
\* stripped and lower-cased.
Option ==
    [ f \in {"analyze=true", "analyze=false", "analyze", "analyze=TRUE", "verbose=true"} |->
        CASE f = "analyze=true" -> [key |-> "analyze", eq |-> TRUE, lower |-> "true"]
          [] f = "analyze=false" -> [key |-> "analyze", eq |-> TRUE, lower |-> "false"]
          [] f = "analyze" -> [key |-> "analyze", eq |-> FALSE, lower |-> ""]
          [] f = "analyze=TRUE" -> [key |-> "analyze", eq |-> TRUE, lower |-> "true"]
          [] f = "verbose=true" -> [key |-> "verbose", eq |-> TRUE, lower |-> "true"] ]

RECURSIVE ParseOptionsBareFalse(_, _)
\* ParseOptions in which a bare key sets no true value.
ParseOptionsBareFalse(frags, options) ==
    LET Set(o) == Put(options, o.key, IF o.eq THEN o.lower = "true" ELSE FALSE)
    IN IF frags = <<>> THEN options
       ELSE ParseOptionsBareFalse(Tail(frags), Set(Option[Head(frags)]))

RECURSIVE ParseOptions(_, _)
\* The options dict built by the loop over the fragments of match.group(2): a later option
\* overwrites an earlier one of the same key.
ParseOptions(frags, options) ==
    LET Set(o) == Put(options, o.key, IF o.eq THEN o.lower = "true" ELSE TRUE)
    IN IF frags = <<>> THEN options
       ELSE ParseOptions(Tail(frags), Set(Option[Head(frags)]))

----------------------------------------------------------------------------
(* Directory resolution: replace_match, lines 372-393.                     *)

RECURSIVE SearchRoots(_, _)
\* The loop over self.config.kustomize_dirs: the first root under which the token is
\* a directory, "" when there is none.
SearchRoots(roots, kustomize_dir) ==
    IF roots = <<>> THEN ""
    ELSE IF isdir(join(Head(roots), kustomize_dir)) THEN join(Head(roots), kustomize_dir)
    ELSE SearchRoots(Tail(roots), kustomize_dir)

\* ResolveDirectory that probes the file system before it looks the token up in the
\* discovery table.
ResolveDirectoryProbeFirst(kustomize_dir) ==
    LET Root(potential_path) ==
            IF potential_path # ""
            THEN [found |-> TRUE, dir |-> potential_path, by |-> "root"]
            ELSE IF kustomize_dir \in DOMAIN _kustomize_path_mapping
            THEN [found |-> TRUE, dir |-> _kustomize_path_mapping[kustomize_dir],
                  by |-> "mapping"]
            ELSE [found |-> FALSE, dir |-> "", by |-> "none"]
    IN IF isdir(kustomize_dir)
       THEN [found |-> TRUE, dir |-> kustomize_dir, by |-> "cwd"]
       ELSE Root(SearchRoots(config.kustomize_dirs, kustomize_dir))

\* The directory a path token stands for and the branch that decided it.
ResolveDirectory(kustomize_dir) ==
    LET Root(potential_path) ==
            IF potential_path # ""
            THEN [found |-> TRUE, dir |-> potential_path, by |-> "root"]
            ELSE [found |-> FALSE, dir |-> "", by |-> "none"]
    IN IF kustomize_dir \in DOMAIN _kustomize_path_mapping
       THEN [found |-> TRUE, dir |-> _kustomize_path_mapping[kustomize_dir], by |-> "mapping"]
       ELSE IF isabs(kustomize_dir) /\ isdir(kustomize_dir)
       THEN [found |-> TRUE, dir |-> kustomize_dir, by |-> "absolute"]
       ELSE IF ~isdir(kustomize_dir)
       THEN Root(SearchRoots(config.kustomize_dirs, kustomize_dir))
       ELSE [found |-> TRUE, dir |-> kustomize_dir, by |-> "cwd"]

----------------------------------------------------------------------------
(* The builder: subprocess.run(kustomize build dir, check=True, text=True), *)
(* lines 397-403.                                                          *)

\* What the tool prints on a directory that holds no kustomization.
NoKustomization == [rc |-> 1, stdout |-> <<>>, stderr |-> "Error: no kustomization file"]

\* The outcome of the call: the CompletedProcess, or the exception raised.  With
\* text=True the stderr of a CalledProcessError is a str; the SubprocessError of the
\* test double (test_kustomize_error) carries bytes.
Run(dir) ==
    LET Exit(p) ==
            IF p.rc # 0
            THEN [ok |-> FALSE, exc |-> "CalledProcessError",
                  stderr |-> [t |-> "str", s |-> p.stderr]]
            ELSE Ok(p)
    IN CASE kustomize.tool = "missing" -> Raise("FileNotFoundError")
         [] kustomize.tool = "mock_error" ->
               [ok |-> FALSE, exc |-> "SubprocessError",
                stderr |-> [t |-> "bytes", s |-> "Kustomize error"]]
         [] OTHER ->
               Exit(IF dir \in DOMAIN kustomize.build THEN kustomize.build[dir]
                    ELSE NoKustomization)

IsSubprocessError(r) == ~r.ok /\ r.exc \in {"SubprocessError", "CalledProcessError"}

----------------------------------------------------------------------------
(* The resource analysis: analyze_resources, lines 446-745.                *)

\* str(v) as an f-string writes it.
Format(v) ==
    CASE v.t = "str" -> v.s
      [] v.t = "none" -> "None"
      [] v.t = "dict" -> "{...}"
      [] OTHER -> "[...]"

\* api_version.split('/') for the apiVersion strings of the model.
Split ==
    [ a \in {"", "v1", "apps/v1", "/v1", "a/b/v1"} |->
        CASE a = "" -> <<"">>
          [] a = "v1" -> <<"v1">>
          [] a = "apps/v1" -> <<"apps", "v1">>
          [] a = "/v1" -> <<"", "v1">>
          [] a = "a/b/v1" -> <<"a", "b", "v1">> ]

Numeral == [n \in 1..9 |-> CASE n = 1 -> "1" [] n = 2 -> "2" [] n = 3 -> "3"
                              [] n = 4 -> "4" [] n = 5 -> "5" [] n = 6 -> "6"
                              [] n = 7 -> "7" [] n = 8 -> "8" [] n = 9 -> "9"]

\* Lines 518-524 and 538: the API-info label of a resource, or the exception raised.
ApiInfo(resource) ==
    LET Label(parts, whole) ==
            CASE Len(parts) = 1 -> Ok(whole)
              [] Len(parts) > 2 -> Raise("ValueError")
              [] OTHER -> Ok(IF parts[1] # "" THEN whole ELSE parts[2])
        Of(api_version) ==
            CASE api_version.t = "none" -> Raise("TypeError")
              [] api_version.t # "str" -> Ok(Format(api_version))
              [] OTHER -> Label(Split[api_version.s], api_version.s)
    IN Of(Get(resource, "apiVersion", Str("")).v)

\* Line 531: details_id, as the two pieces the f-string joins.
DetailsId(resource_index) == <<"resource-", Numeral[resource_index]>>

\* Lines 526-556: the row pair of one resource, or the exception raised: the resource
\* row with its four cells (kind and API info, name, namespace, checkbox and label),
\* then the details row that holds the YAML of the resource.
RowPair(resource, resource_index) ==
    LET Markup(api_info, kind, name, namespace, details_id) ==
            << <<"<tr class=resource-row>">>,
               <<"<td>", kind, "<span class=resource-api-info>", api_info, "</span></td>">>,
               <<"<td title=", name, ">", name, "</td>">>,
               <<"<td title=", namespace, ">", namespace, "</td>">>,
               <<"<td><input type=checkbox id=">> \o details_id
                    \o <<"-check", " class=k8s-yaml-checkbox aria-label=Show YAML for ",
                         kind, " ", name, " /><label for=">> \o details_id
                    \o <<"-check", " class=k8s-yaml-toggle>YAML</label></td>">>,
               <<"</tr>">>,
               <<"<tr id=">> \o details_id \o <<"-row", " class=k8s-yaml-row data-yaml-id=">>
                    \o details_id \o <<">">>,
               <<"<td colspan=4>">>,
               <<"<div class=resource-details>">>,
               <<"">>,
               <<Fence, "yaml">> >>
            \o dump(resource)
            \o << <<Fence>>, <<"">>, <<"</div>">>, <<"</td>">>, <<"</tr>">> >>
        Pair(api, kind, name, namespace) ==
            IF ~api.ok THEN api
            ELSE IF ~name.ok THEN name
            ELSE Ok(Markup(api.v, Format(kind.v), Format(name.v), Format(namespace.v),
                           DetailsId(resource_index)))
        With(metadata) ==
            Pair(ApiInfo(resource), Get(resource, "kind", Str("")),
                 Get(metadata, "name", Str("")), Get(metadata, "namespace", Str("")))
    IN With(Get(resource, "metadata", EmptyDict).v)

RECURSIVE Rows(_, _)
\* The loop of lines 514-556: non-mapping entries are skipped and do not count.
Rows(resources, resource_index) ==
    LET Both(row, more) ==
            IF ~row.ok THEN row
            ELSE IF ~more.ok THEN more
            ELSE Ok(row.v \o more.v)
    IN IF resources = <<>> THEN Ok(<<>>)
       ELSE IF ~isinstance_dict(Head(resources)) THEN Rows(Tail(resources), resource_index)
       ELSE Both(RowPair(Head(resources), resource_index),
                 Rows(Tail(resources), resource_index + 1))

\* Lines 560-591: the style block that follows the table, one rule per line: the
\* selector, its steps separated by the adjacent-sibling combinator, then the display
\* value the rule sets.
ToggleStyle ==
    << <<"<style>">>,
       <<".k8s-yaml-checkbox", "{display:", "none", "}">>,
       <<".k8s-yaml-row", "{display:", "none", "}">>,
       <<".k8s-yaml-row", ".k8s-yaml-expanded", "{display:", "table-row", "}">>,
       <<".k8s-yaml-checkbox", ":checked", "+", ".k8s-yaml-toggle", "+",
         "tr", "[data-yaml-id]", "{display:", "table-row", "}">>,
       <<"</style>">> >>

\* analyze_resources, lines 446-705: the text for an empty argument, else the style
\* block, the table with one row pair per mapping, the toggle style and the script.
analyze_resources(resources) ==
    LET Table(rows) ==
            IF ~rows.ok THEN rows
            ELSE Ok(<< <<"<style>resource-table</style>">>,
                       <<"<div class=mkdocs-kustomize-plugin>">>,
                       <<"<table class=resource-table>">>,
                       <<"<thead>", "Kind", "Name", "Namespace", "Details", "</thead>">>,
                       <<"<tbody>">> >>
                    \o rows.v
                    \o << <<"</tbody>">>, <<"</table>">>, <<"</div>">> >>
                    \o ToggleStyle
                    \o << <<"<script>setupYamlToggles</script>">> >>)
    IN IF resources = <<>> THEN Ok(<< <<"No resources found.">> >>)
       ELSE Table(Rows(resources, 1))

----------------------------------------------------------------------------
(* The override merge: replace_match, lines 408-430.                       *)

\* str(e) of a yaml.YAMLError.
YAMLErrorText == "while parsing a flow sequence: expected ',' or ']'"

\* Lines 421-423: whether the override names the resource.  The second operand of
\* "and" is evaluated only when the kinds are equal.
Matches(override_yaml, resource) ==
    LET Names(override_name, name) ==
            IF ~override_name.ok THEN override_name
            ELSE IF ~name.ok THEN name
            ELSE Ok(override_name.v = name.v)
        Kinds(override_kind, kind) ==
            IF ~kind.ok THEN kind
            ELSE IF override_kind.v # kind.v THEN Ok(FALSE)
            ELSE Names(Get(Get(override_yaml, "metadata", EmptyDict).v, "name", None),
                       Get(Get(resource, "metadata", EmptyDict).v, "name", None))
    IN Kinds(Get(override_yaml, "kind", None), Get(resource, "kind", None))

RECURSIVE MergeLoopFirstOnly(_, _)
\* MergeLoop with a break after the first resource the override names.
MergeLoopFirstOnly(kustomize_yaml, override_yaml) ==
    LET Both(resource, m) ==
            IF ~m.ok THEN m
            ELSE IF m.v THEN Ok(<<Update(resource, override_yaml)>> \o Tail(kustomize_yaml))
            ELSE (LET Rest(more) == IF ~more.ok THEN more ELSE Ok(<<resource>> \o more.v)
                  IN Rest(MergeLoopFirstOnly(Tail(kustomize_yaml), override_yaml)))
    IN IF kustomize_yaml = <<>> THEN Ok(<<>>)
       ELSE Both(Head(kustomize_yaml), Matches(override_yaml, Head(kustomize_yaml)))

RECURSIVE MergeLoop(_, _)
\* Lines 419-425: the loop over kustomize_yaml, which updates every resource the
\* override names, or the exception it raises.
MergeLoop(kustomize_yaml, override_yaml) ==
    LET Both(resource, m, more) ==
            IF ~m.ok THEN m
            ELSE IF ~more.ok THEN more
            ELSE Ok(<<IF m.v THEN Update(resource, override_yaml) ELSE resource>> \o more.v)
    IN IF kustomize_yaml = <<>> THEN Ok(<<>>)
       ELSE Both(Head(kustomize_yaml), Matches(override_yaml, Head(kustomize_yaml)),
                 MergeLoop(Tail(kustomize_yaml), override_yaml))

\* ApplyOverride whose error block leaves the override text out.
ApplyOverrideWithoutText(output, override_content) ==
    LET Merged(merged) ==
            IF ~merged.ok THEN [kind |-> "raise", exc |-> merged.exc]
            ELSE [kind |-> "merged", output |-> dump_all(merged.v),
                  kustomize_yaml |-> merged.v]
        Loaded(kustomize_yaml, override_yaml) ==
            IF ~kustomize_yaml.ok \/ ~override_yaml.ok
            THEN [kind |-> "return",
                  text |-> << <<Fence, "yaml">>, <<"# Error parsing YAML: ", YAMLErrorText>>,
                              <<Fence>> >>]
            ELSE IF Truthy(override_yaml.v) /\ isinstance_dict(override_yaml.v)
            THEN Merged(MergeLoop(kustomize_yaml.v, override_yaml.v))
            ELSE [kind |-> "parsed", output |-> output, kustomize_yaml |-> kustomize_yaml.v]
    IN Loaded(safe_load_all(output), safe_load(override_content))

\* Lines 409-430: what the override block leaves: "return" (the except branch returns
\* the error block), "raise", or the output and kustomize_yaml to go on with.
ApplyOverride(output, override_content) ==
    LET Merged(merged) ==
            IF ~merged.ok THEN [kind |-> "raise", exc |-> merged.exc]
            ELSE [kind |-> "merged", output |-> dump_all(merged.v),
                  kustomize_yaml |-> merged.v]
        Loaded(kustomize_yaml, override_yaml) ==
            IF ~kustomize_yaml.ok \/ ~override_yaml.ok
            THEN [kind |-> "return",
                  text |-> << <<Fence, "yaml">>, <<"# Error parsing YAML: ", YAMLErrorText>> >>
                           \o override_content \o << <<Fence>> >>]
            ELSE IF Truthy(override_yaml.v) /\ isinstance_dict(override_yaml.v)
            THEN Merged(MergeLoop(kustomize_yaml.v, override_yaml.v))
            ELSE [kind |-> "parsed", output |-> output, kustomize_yaml |-> kustomize_yaml.v]
    IN Loaded(safe_load_all(output), safe_load(override_content))

----------------------------------------------------------------------------
(* replace_match, lines 358-441.                                           *)

\* Render that always writes the parsed stream back instead of the text it was given.
RenderReserialized(output, analyze, parsed, kustomize_yaml) ==
    LET Dumped(resources_yaml) ==
            IF ~resources_yaml.ok THEN resources_yaml
            ELSE Ok(<< <<Fence, "yaml">> >>
                    \o dump_all(SelectSeq(resources_yaml.v, isinstance_dict))
                    \o << <<Fence>> >>)
    IN Dumped(safe_load_all(output))

\* Lines 432-438: the analysis table or the YAML block of a finished build.
Render(output, analyze, parsed, kustomize_yaml) ==
    LET Titled(resources_table) ==
            IF ~resources_table.ok THEN resources_table
            ELSE Ok(<< <<"## Resources Analysis">>, <<"">> >> \o resources_table.v)
        Analyze(resources_yaml) ==
            IF ~resources_yaml.ok THEN resources_yaml
            ELSE Titled(analyze_resources(resources_yaml.v))
    IN IF analyze
       THEN Analyze(IF parsed THEN Ok(kustomize_yaml) ELSE safe_load_all(output))
       ELSE Ok(<< <<Fence, "yaml">> >> \o output \o << <<Fence>> >>)

\* Lines 395-441: the build of a resolved directory and what is made of it.
BuildAndRender(dir, override_content, analyze) ==
    LET Overridden(o) ==
            CASE o.kind = "return" -> Ok(o.text)
              [] o.kind = "raise" -> Raise(o.exc)
              [] OTHER -> Render(o.output, analyze, TRUE, o.kustomize_yaml)
        Built(run) ==
            IF IsSubprocessError(run)
            THEN \* line 440: e.stderr.decode, and a str has no decode
                 IF run.stderr.t = "bytes"
                 THEN Ok(<< <<Fence, "yaml">>,
                            <<"# Error running kustomize: ", run.stderr.s>>, <<Fence>> >>)
                 ELSE Raise("AttributeError")
            ELSE IF ~run.ok THEN run
            ELSE IF override_content # <<>>
            THEN Overridden(ApplyOverride(run.v.stdout, override_content))
            ELSE Render(run.v.stdout, analyze, FALSE, <<>>)
    IN Built(Run(dir))

\* replace_match without the early return of line 393: the unresolved token goes to
\* the builder.
replace_match_without_return(m) ==
    LET Analyze(options) == IF "analyze" \in DOMAIN options THEN options["analyze"] ELSE FALSE
        Resolved(kustomize_dir, resolved) ==
            [ret |-> BuildAndRender(IF resolved.found THEN resolved.dir ELSE kustomize_dir,
                                    strip(m.group3), Analyze(ParseOptions(m.group2, <<>>))),
             resolved |-> resolved, ran |-> TRUE]
    IN Resolved(m.group1, ResolveDirectory(m.group1))

\* The callback of re.sub on match m: what it returns or raises, how the directory
\* was resolved, and whether the builder was run.
replace_match(m) ==
    LET Analyze(options) == IF "analyze" \in DOMAIN options THEN options["analyze"] ELSE FALSE
        Resolved(kustomize_dir, resolved) ==
            IF ~resolved.found
            THEN [ret |-> Ok(<< <<Fence, "yaml">>,
                                <<"# Error: Kustomize directory '", kustomize_dir,
                                  "' not found">>,
                                <<Fence>> >>),
                  resolved |-> resolved, ran |-> FALSE]
            ELSE [ret |-> BuildAndRender(resolved.dir, strip(m.group3),
                                         Analyze(ParseOptions(m.group2, <<>>))),
                  resolved |-> resolved, ran |-> TRUE]
    IN Resolved(m.group1, ResolveDirectory(m.group1))

----------------------------------------------------------------------------
(* Directory discovery: on_files, lines 95-144, and                        *)
(* _find_kustomize_directories, lines 235-249.                             *)

\* os.walk(base_path): base_path and the directories below it.
Walk(base_path) ==
    {d \in DOMAIN fs :
        \/ d = base_path
        \/ \E n \in {"app", "lib"} : d = join(base_path, n)
        \/ base_path = "nav" /\ d \in {"nav/app/base", "nav/app[1]"}}

\* The walk that asks for a kustomization file only.
_find_kustomize_directories_without_readme(base_path) ==
    {root \in Walk(base_path) :
        "kustomization.yaml" \in fs[root] \/ "kustomization.yml" \in fs[root]}

_find_kustomize_directories(base_path) ==
    {root \in Walk(base_path) :
        /\ ("kustomization.yaml" \in fs[root] \/ "kustomization.yml" \in fs[root])
        /\ "README.md" \in fs[root]}

\* os.path.relpath(kustomize_dir, auto_nav_path) with the separators normalized.
relpath(path, start) ==
    IF path = start THEN "."
    ELSE IF start = "" THEN path
    ELSE IF start = "nav" /\ path = "nav/app/base" THEN "app/base"
    ELSE IF start = "nav" /\ path = "nav/app[1]" THEN "app[1]"
    ELSE IF start = "nav/app"
    THEN CASE path = "nav/app/base" -> "base"
           [] path = "nav/lib" -> "../lib"
           [] path = "nav/app[1]" -> "../app[1]"
           [] path = "nav" -> ".."
    ELSE CHOOSE n \in {"app", "lib"} : join(start, n) = path

\* os.path.dirname and os.path.basename of the directories os.walk visits.
dirname == ("nav" :> "") @@ ("nav/app" :> "nav") @@ ("nav/lib" :> "nav")
           @@ ("nav/app[1]" :> "nav") @@ ("nav/app/base" :> "nav/app")

basename == ("nav" :> "nav") @@ ("nav/app" :> "app") @@ ("nav/lib" :> "lib")
            @@ ("nav/app[1]" :> "app[1]") @@ ("nav/app/base" :> "base")

\* The fragments a path contributes to a line of text: its brackets are characters
\* of the line like any other bracket.
PathText(p) ==
    CASE p = "app[1]" -> <<"app", "[", "1", "]">>
      [] p = "nav/app[1]" -> <<"nav/app", "[", "1", "]">>
      [] p = "../app[1]" -> <<"../app", "[", "1", "]">>
      [] OTHER -> <<p>>

\* kustomize_dirs[0]: os.walk is top-down, so the first directory found has no
\* directory found above it; the order of siblings is that of the listing.
Firsts(kustomize_dirs) ==
    {d \in kustomize_dirs : \A a \in kustomize_dirs : a = d \/ a # dirname[d]}

\* sorted(kustomize_dirs): the order of the strings.
sorted(kustomize_dirs) ==
    SelectSeq(<<"nav", "nav/app", "nav/app/base", "nav/app[1]", "nav/lib">>,
              LAMBDA d : d \in kustomize_dirs)

\* _extract_title_from_readme, lines 34-67: the first level 1 heading outside the
\* code blocks, a heading line being <<"# ", title>>.
_extract_title_from_readme(content) ==
    LET in_code_block(i) ==
            Cardinality({j \in 1..(i - 1) : HasFence(content[j])}) % 2 = 1
        Headings == {i \in 1..Len(content) :
                        /\ ~HasFence(content[i])
                        /\ ~in_code_block(i)
                        /\ Len(content[i]) >= 2
                        /\ content[i][1] = "# "}
    IN IF Headings = {} THEN None
       ELSE Str(content[CHOOSE i \in Headings : \A j \in Headings : i <= j][2])

\* dir_name.replace('_', ' ').replace('-', ' ').title()
title == ("nav" :> "Nav") @@ ("app" :> "App") @@ ("lib" :> "Lib")
         @@ ("app[1]" :> "App[1]") @@ ("base" :> "Base")

\* The backtick that quotes rel_path in an item of the index page.
Tick == "<tick>"

\* _generate_index_page_content, lines 300-329, with first for kustomize_dirs[0] and
\* nav_title at its default.
_generate_index_page_content(kustomize_dirs, first) ==
    LET Item(kustomize_dir) ==
            LET readme_title ==
                    IF kustomize_dir \in DOMAIN readme
                    THEN _extract_title_from_readme(readme[kustomize_dir])
                    ELSE None
                display_title ==
                    IF readme_title # None THEN readme_title.s
                    ELSE title[basename[kustomize_dir]]
            IN <<"- **", display_title, "** (", Tick>>
                   \o PathText(relpath(kustomize_dir, dirname[first]))
                   \o <<Tick, ")">>
        Items == [i \in 1..Cardinality(kustomize_dirs) |-> Item(sorted(kustomize_dirs)[i])]
        Found == IF kustomize_dirs = {} THEN "0" ELSE Numeral[Cardinality(kustomize_dirs)]
    IN << <<"# ", "Kustomize">>, <<"">>,
          <<"This section contains auto-discovered Kustomize configurations.">>, <<"">>,
          <<"Found ", Found, " directories with Kustomize configurations:">>, <<"">> >>
       \o Items
       \o << <<"">>, <<"Use the navigation menu to explore each configuration.">> >>

\* The directive that ends a generated page, line 296.
GeneratedDirective(rel_path) ==
    << <<Fence, "kustomize", " ">> \o PathText(rel_path) \o <<" ", "[", "analyze=true", "]">>,
       <<Fence>> >>

\* _generate_kustomize_page_content, lines 251-298: the README.md as it is, the usage
\* section and the directive; repo_url is not set, so it formats as None.
_generate_kustomize_page_content(kustomize_dir, rel_path) ==
    LET readme_content ==
            IF kustomize_dir \in DOMAIN readme
            THEN readme[kustomize_dir] \o << <<"">>, <<"">>, <<"">> >>
            ELSE <<>>
        usage_doc ==
            << <<"## Usage">>, <<"">>,
               <<"If you have cloned the ", Tick, "gitops-catalog", Tick,
                 " repository, you can install by running from the root directory:">>,
               <<"">>,
               <<Fence, "sh">>,
               <<"oc apply -k ">> \o PathText(kustomize_dir),
               <<Fence>>, <<"">>,
               <<"Or, without cloning:">>, <<"">>,
               <<Fence, "sh">>,
               <<"oc apply -k ", "None", "/">> \o PathText(kustomize_dir),
               <<Fence>>, <<"">>,
               <<"As part of a different overlay in your own GitOps repo:">>, <<"">>,
               <<Fence, "yaml">>,
               <<"apiVersion: kustomize.config.k8s.io/v1beta1">>,
               <<"kind: Kustomization">>,
               <<"resources:">>,
               <<"    - ", "None", "/">> \o PathText(kustomize_dir) \o <<"?ref=main">>,
               <<Fence>>, <<"">>, <<"">> >>
    IN readme_content \o usage_doc \o GeneratedDirective(rel_path)

\* f"kustomize/{normalized_path}.md"
page_path(normalized_path) == <<"kustomize/", normalized_path, ".md">>

index_page_path == <<"kustomize/index.md">>


----------------------------------------------------------------------------
(* The inputs of the model: the worlds a build runs in and the page texts. *)

\* The documents a builder stream is made of, as text.
DocTexts ==
    { << <<"kind: ConfigMap">>, <<"metadata:">>, <<"  name: cm">>,
         <<"data:">>, <<"  k: old">>, <<"  j: 1">> >>,
      << <<"apiVersion: v1">>, <<"kind: ConfigMap">>, <<"metadata: {name: cm}">> >>,
      << <<"kind: Secret">>, <<"metadata:">>, <<"  name: other">>, <<"  namespace: ns">> >>,
      << >>,
      << <<"data: [unclosed">> >> }

RECURSIVE JoinDocs(_)
JoinDocs(docs) ==
    IF docs = <<>> THEN <<>>
    ELSE IF Len(docs) = 1 THEN docs[1]
    ELSE docs[1] \o << <<"---">> >> \o JoinDocs(Tail(docs))

\* The builder streams: up to MaxDocs documents separated by "---".
Streams == {JoinDocs(docs) : docs \in UNION {[1..n -> DocTexts] : n \in 0..MaxDocs}}

Files == {"kustomization.yaml", "README.md"}

\* A file system in which exactly the directories of S exist (and their parents).
FsOf(S) ==
    [d \in S \cup (IF "nav/app" \in S THEN {"nav"} ELSE {}) |->
        IF d = "nav" THEN {} ELSE Files]

\* What the builder prints for the directories of the resolution worlds: one stream per
\* directory, so that the output tells which directory was built.
DefaultBuild(d) ==
    [rc |-> 0, stderr |-> "",
     stdout |-> CASE d = "app" -> << <<"kind: ConfigMap">>, <<"metadata: {name: cm}">> >>
                  [] d = "/abs/app" -> << <<"kind: Secret">>, <<"metadata: {name: cm}">> >>
                  [] d = "r1/app" -> << <<"apiVersion: v1">>, <<"kind: ConfigMap">> >>
                  [] d = "r2/app" -> << <<"apiVersion: v1">>, <<"kind: Secret">> >>
                  [] OTHER -> << <<"apiVersion: v1">> >>]

\* The README.md of the directories whose text no scenario varies.
Readme == << <<"# ", "App">> >>

ReadmeOf(tree) == [d \in {x \in DOMAIN tree : "README.md" \in tree[x]} |-> Readme]

World(enable, roots, nav, S, tool, build) ==
    [enable_rendering |-> enable, kustomize_dirs |-> roots, auto_nav_path |-> nav,
     fs |-> FsOf(S), tool |-> tool, build |-> build]

\* Worlds that vary what exists: every subset of the candidate directories with the
\* search roots in both orders, and with no search root when nothing is under one.
ResolutionWorlds ==
    {World(TRUE, roots, "nav", S, "installed", [d \in S |-> DefaultBuild(d)]) :
        roots \in {<<"r1", "r2">>, <<"r2", "r1">>},
        S \in SUBSET {"app", "r1/app", "r2/app", "/abs/app", "nav/app"}}
    \cup
    {World(TRUE, <<>>, "nav", S, "installed", [d \in S |-> DefaultBuild(d)]) :
        S \in SUBSET {"app", "/abs/app", "nav/app"}}

\* Worlds that vary what the builder prints for app; the build of /abs/app fails.
BuilderWorlds ==
    {World(TRUE, <<>>, "", {"app", "/abs/app"}, "installed",
           ("app" :> [rc |-> 0, stdout |-> s, stderr |-> ""])
           @@ ("/abs/app" :> [rc |-> 1, stdout |-> <<>>,
                              stderr |-> "Error: accumulating resources"])) :
        s \in Streams}

\* Worlds without a working tool, and one with rendering disabled.
ToolWorlds ==
    {World(en, <<>>, "", {"app"}, tool, ("app" :> DefaultBuild("app"))) :
        en \in BOOLEAN, tool \in {"missing", "mock_error", "installed"}}

\* A world in which the builder prints a text that holds a directive of its own.
EchoWorlds ==
    {World(TRUE, <<>>, "", {"app"}, "installed",
           ("app" :> [rc |-> 0, stderr |-> "",
                      stdout |-> << <<"kind: ConfigMap">>,
                                    <<Fence, "kustomize", " ", "app">>,
                                    <<Fence>> >>]))}

Worlds == ResolutionWorlds \cup BuilderWorlds \cup ToolWorlds \cup EchoWorlds

\* The override bodies of the directives.
Bodies ==
    { << >>,
      << <<"kind: ConfigMap">>, <<"metadata:">>, <<"  name: cm">>, <<"data:">>, <<"  k: new">> >>,
      << <<"">>, <<"kind: ConfigMap">>, <<"metadata:">>, <<"  name: other">>,
         <<"data: old">>, <<"">> >>,
      << <<"data: [unclosed">> >>,
      << <<"- item">> >> }

Opener(token, options) ==
    <<Fence, "kustomize", " ", token>>
    \o (IF options = <<>> THEN <<>> ELSE <<" ", "[">> \o options \o <<"]">>)

\* A directive: the opener, the body, the closing fence; a text line follows it.
Block(token, options, body) ==
    << Opener(token, options) >> \o body \o << <<Fence>>, <<"More content">> >>

\* The blocks a page is made of: the directives, and an opener that no fence closes.
Blocks ==
    {Block("app", <<>>, body) : body \in Bodies}
    \cup {Block("app", <<"analyze=true">>, body) : body \in {b \in Bodies : Len(b) \in {0, 5}}}
    \cup {Block("app", <<opt>>, <<>>) :
            opt \in {"analyze=false", "analyze", "analyze=TRUE", "verbose=true"}}
    \cup {Block("app", <<"analyze=true", ",", "analyze=false">>, <<>>)}
    \cup {Block("/abs/app", <<>>, <<>>)}
    \cup {<< Opener("app", <<>>), <<"kind: Secret">> >>}

RECURSIVE Concat(_)
Concat(blocks) == IF blocks = <<>> THEN <<>> ELSE Head(blocks) \o Concat(Tail(blocks))

\* The blocks that follow the first block of a page: a directive that builds, one whose
\* directory is another, one that asks for the analysis table, and an opener that no
\* fence closes.
Siblings ==
    {Block("app", <<>>, <<>>), Block("/abs/app", <<>>, <<>>),
     Block("app", <<"analyze=true">>, <<>>),
     << Opener("app", <<>>), <<"kind: Secret">> >>}

\* The page texts: a title line, then no block, or a block and siblings after it, up to
\* MaxDirectives blocks in all.
Pages ==
    { << <<"# Test Page">> >> }
    \cup {<< <<"# Test Page">> >> \o first \o Concat(more) :
            first \in Blocks,
            more \in UNION {[1..n -> Siblings] : n \in 0..(MaxDirectives - 1)}}

----------------------------------------------------------------------------
(* The state machine.                                                      *)

Init ==
    /\ \E w \in Worlds :
        /\ config = [enable_rendering |-> w.enable_rendering,
                     kustomize_dirs |-> w.kustomize_dirs,
                     auto_nav_path |-> w.auto_nav_path]
        /\ fs = w.fs
        /\ kustomize = [tool |-> w.tool, build |-> w.build]
    /\ _kustomize_path_mapping = <<>>
    /\ phase = "constructed"
    /\ markdown = <<>>
    /\ rest = <<>>
    /\ out = <<>>
    /\ calls = <<>>
    /\ matches = <<>>
    /\ result = Ok(<<>>)
    /\ analyzed = <<>>
    /\ browser = <<>>
    /\ readme = ReadmeOf(fs)
    /\ files = <<>>

\* on_config, lines 69-93: probes the tool, logs, and keeps the configuration.
on_config ==
    /\ phase = "constructed"
    /\ phase' = "configured"
    /\ UNCHANGED <<config, readme, _kustomize_path_mapping, fs, kustomize, markdown, rest, out,
                   calls, matches, result>>
    /\ UNCHANGED files
    /\ UNCHANGED <<analyzed, browser>>

\* on_files, lines 95-144: fills the discovery table from the auto_nav_path tree.
on_files ==
    /\ phase = "configured"
    /\ phase' = "files"
    /\ IF config.auto_nav_path = "" \/ ~config.enable_rendering
       THEN UNCHANGED <<_kustomize_path_mapping, files>>
       ELSE IF ~isdir(config.auto_nav_path)
       THEN UNCHANGED <<_kustomize_path_mapping, files>>
       ELSE \E kustomize_dirs \in {_find_kustomize_directories(config.auto_nav_path)} :
              \E first \in (IF kustomize_dirs = {} THEN {""} ELSE Firsts(kustomize_dirs)) :
                /\ _kustomize_path_mapping' =
                    [normalized_path \in (DOMAIN _kustomize_path_mapping)
                            \cup {relpath(d, config.auto_nav_path) : d \in kustomize_dirs} |->
                        IF \E d \in kustomize_dirs :
                                relpath(d, config.auto_nav_path) = normalized_path
                        THEN CHOOSE d \in kustomize_dirs :
                                relpath(d, config.auto_nav_path) = normalized_path
                        ELSE _kustomize_path_mapping[normalized_path]]
                /\ files' =
                    [src_path \in (DOMAIN files) \cup {index_page_path}
                            \cup {page_path(relpath(d, config.auto_nav_path)) :
                                    d \in kustomize_dirs} |->
                        IF \E d \in kustomize_dirs :
                                page_path(relpath(d, config.auto_nav_path)) = src_path
                        THEN LET kustomize_dir ==
                                    CHOOSE d \in kustomize_dirs :
                                        page_path(relpath(d, config.auto_nav_path)) = src_path
                             IN _generate_kustomize_page_content(
                                    kustomize_dir, relpath(kustomize_dir, config.auto_nav_path))
                        ELSE IF src_path = index_page_path
                        THEN _generate_index_page_content(kustomize_dirs, first)
                        ELSE files[src_path]]
    /\ UNCHANGED <<config, readme, fs, kustomize, markdown, rest, out, calls, matches, result>>
    /\ UNCHANGED <<analyzed, browser>>

\* on_page_markdown without the enable_rendering guard of lines 347-348.
on_page_markdown_unguarded ==
    /\ phase = "ready"
    /\ \E text \in Pages \cup {files[src_path] : src_path \in DOMAIN files} :
        /\ markdown' = text
        /\ phase' = "scanning"
        /\ result' = Ok(<<>>)
        /\ rest' = text
    /\ out' = <<>>
    /\ calls' = <<>>
    /\ matches' = <<>>
    /\ UNCHANGED <<config, readme, _kustomize_path_mapping, fs, kustomize>>
    /\ UNCHANGED files
    /\ UNCHANGED <<analyzed, browser>>

\* on_page_markdown, lines 331-350: the call; with rendering disabled it returns the
\* text at once, otherwise re.sub starts at the head of the text.
on_page_markdown ==
    /\ phase = "ready"
    /\ \E text \in Pages \cup {files[src_path] : src_path \in DOMAIN files} :
        /\ markdown' = text
        /\ IF ~config.enable_rendering
           THEN /\ phase' = "returned"
                /\ result' = Ok(text)
                /\ rest' = <<>>
           ELSE /\ phase' = "scanning"
                /\ result' = Ok(<<>>)
                /\ rest' = text
    /\ out' = <<>>
    /\ calls' = <<>>
    /\ matches' = <<>>
    /\ UNCHANGED <<config, readme, _kustomize_path_mapping, fs, kustomize>>
    /\ UNCHANGED files
    /\ UNCHANGED <<analyzed, browser>>

\* The replacement r and what followed the closing fence on its line, in one text.
Splice(r, after) ==
    IF after = <<>> THEN r
    ELSE IF r = <<>> THEN <<after>>
    ELSE SubSeq(r, 1, Len(r) - 1) \o <<r[Len(r)] \o after>>

\* A substitution that scans what it has put in: the replacement goes back into the
\* text still to be scanned.
ReplaceMatchRescanning ==
    /\ phase = "scanning"
    /\ \E m \in {FindMatch(rest)} :
        /\ m.found
        /\ \E r \in {replace_match(m)} :
            /\ matches' = Append(matches,
                    [token |-> m.group1, options |-> m.group2, body |-> m.group3,
                     resolved |-> r.resolved, ret |-> r.ret])
            /\ calls' = IF r.ran THEN Append(calls, <<"kustomize", "build", r.resolved.dir>>)
                        ELSE calls
            /\ IF r.ret.ok
               THEN /\ out' = out \o SubSeq(rest, 1, m.start - 1)
                    /\ rest' = Splice(r.ret.v, m.after) \o SubSeq(rest, m.end + 1, Len(rest))
                    /\ UNCHANGED <<phase, result>>
               ELSE /\ phase' = "raised"
                    /\ result' = r.ret
                    /\ UNCHANGED <<out, rest>>
    /\ UNCHANGED <<config, readme, _kustomize_path_mapping, fs, kustomize, markdown>>
    /\ UNCHANGED files
    /\ UNCHANGED <<analyzed, browser>>

\* One step of re.sub, line 444: the next match is found and replace_match is called
\* on it; its return value replaces the match, its exception ends the call.
ReplaceMatch ==
    /\ phase = "scanning"
    /\ \E m \in {FindMatch(rest)} :
        /\ m.found
        /\ \E r \in {replace_match(m)} :
            /\ matches' = Append(matches,
                    [token |-> m.group1, options |-> m.group2, body |-> m.group3,
                     resolved |-> r.resolved, ret |-> r.ret])
            /\ calls' = IF r.ran THEN Append(calls, <<"kustomize", "build", r.resolved.dir>>)
                        ELSE calls
            /\ IF r.ret.ok
               THEN /\ out' = out \o SubSeq(rest, 1, m.start - 1) \o Splice(r.ret.v, m.after)
                    /\ rest' = SubSeq(rest, m.end + 1, Len(rest))
                    /\ UNCHANGED <<phase, result>>
               ELSE /\ phase' = "raised"
                    /\ result' = r.ret
                    /\ UNCHANGED <<out, rest>>
    /\ UNCHANGED <<config, readme, _kustomize_path_mapping, fs, kustomize, markdown>>
    /\ UNCHANGED files
    /\ UNCHANGED <<analyzed, browser>>

\* The end of re.sub: no further match, the text left is copied and the call returns.
Return ==
    /\ phase = "scanning"
    /\ ~FindMatch(rest).found
    /\ phase' = "returned"
    /\ result' = Ok(out \o rest)
    /\ out' = out \o rest
    /\ rest' = <<>>
    /\ UNCHANGED <<config, readme, _kustomize_path_mapping, fs, kustomize, markdown, calls, matches>>
    /\ UNCHANGED files
    /\ UNCHANGED <<analyzed, browser>>

\* The host takes the returned text and goes on to the next page: nothing of the call
\* is kept.
page_done ==
    /\ phase = "returned"
    /\ phase' = "ready"
    /\ markdown' = <<>>
    /\ rest' = <<>>
    /\ out' = <<>>
    /\ calls' = <<>>
    /\ matches' = <<>>
    /\ result' = Ok(<<>>)
    /\ UNCHANGED <<config, readme, _kustomize_path_mapping, fs, kustomize>>
    /\ UNCHANGED files
    /\ UNCHANGED <<analyzed, browser>>

\* on_nav with a table it tidies: the entries are dropped once the titles are read.
on_nav_clearing ==
    /\ phase = "files"
    /\ phase' = "ready"
    /\ _kustomize_path_mapping' = <<>>
    /\ UNCHANGED <<config, readme, fs, kustomize, markdown, rest, out, calls, matches, result>>
    /\ UNCHANGED files
    /\ UNCHANGED <<analyzed, browser>>

\* on_nav, lines 146-234: after on_files and before the pages; it looks the generated
\* pages up in the discovery table (lines 176-177) to title them and appends a section
\* to the navigation.
on_nav ==
    /\ phase = "files"
    /\ phase' = "ready"
    /\ UNCHANGED <<config, readme, _kustomize_path_mapping, fs, kustomize, markdown, rest, out,
                   calls, matches, result>>
    /\ UNCHANGED files
    /\ UNCHANGED <<analyzed, browser>>

\* on_page_context, lines 707-734: called for every page once all pages have been
\* through on_page_markdown; it marks the section of the navigation as active.
on_page_context ==
    /\ phase \in {"ready", "building"}
    /\ phase' = "building"
    /\ UNCHANGED <<config, readme, _kustomize_path_mapping, fs, kustomize, markdown, rest, out,
                   calls, matches, result>>
    /\ UNCHANGED files
    /\ UNCHANGED <<analyzed, browser>>

\* on_post_build, lines 736-745: the end of the build; it logs.
on_post_build ==
    /\ phase \in {"ready", "building"}
    /\ phase' = "built"
    /\ UNCHANGED <<config, readme, _kustomize_path_mapping, fs, kustomize, markdown, rest, out,
                   calls, matches, result>>
    /\ UNCHANGED files
    /\ UNCHANGED <<analyzed, browser>>

Next ==
    \/ on_config
    \/ on_files
    \/ on_nav
    \/ on_page_markdown
    \/ ReplaceMatch
    \/ Return
    \/ page_done
    \/ on_page_context
    \/ on_post_build

Spec == Init /\ [][Next]_vars

----------------------------------------------------------------------------
(* analyze_resources called on its own, as test_analyze_resources does: the *)
(* plugin is constructed with the default configuration and the method is  *)
(* given a list of resources.                                              *)

\* A resource: a ConfigMap with the apiVersion and metadata entries given.
Manifest(api, meta) == Dict(("kind" :> Str("ConfigMap")) @@ api @@ meta)

\* The apiVersion entry: none, a bare version, group/version, a leading slash, two
\* slashes, null.
ApiVersions ==
    {<<>>} \cup {("apiVersion" :> v) :
                    v \in {Str("v1"), Str("apps/v1"), Str("/v1"), Str("a/b/v1"), None}}

\* The metadata entry: none, a name, a name and a namespace, a null namespace, null.
Metadatas ==
    {<<>>} \cup {("metadata" :> m) :
                    m \in {Dict([name |-> Str("cm")]),
                           Dict([name |-> Str("cm"), namespace |-> Str("ns")]),
                           Dict([name |-> Str("cm"), namespace |-> None]),
                           None}}

\* The entries of a list: resources that differ in one of the two, and two values that
\* are no mapping.
Entries ==
    {Manifest(a, ("metadata" :> Dict([name |-> Str("cm")]))) : a \in ApiVersions}
    \cup {Manifest(("apiVersion" :> Str("v1")), m) : m \in Metadatas}
    \cup {None, List}

ResourceLists == UNION {[1..n -> Entries] : n \in 0..MaxResources}

AnalyzeInit ==
    /\ config = [enable_rendering |-> TRUE, kustomize_dirs |-> <<>>, auto_nav_path |-> ""]
    /\ fs = <<>>
    /\ kustomize = [tool |-> "installed", build |-> <<>>]
    /\ _kustomize_path_mapping = <<>>
    /\ phase = "constructed"
    /\ markdown = <<>>
    /\ rest = <<>>
    /\ out = <<>>
    /\ calls = <<>>
    /\ matches = <<>>
    /\ result = Ok(<<>>)
    /\ analyzed = <<>>
    /\ browser = <<>>
    /\ readme = <<>>
    /\ files = <<>>

\* The call plugin.analyze_resources(resources): it returns the table or raises.
CallAnalyzeResources ==
    /\ phase = "constructed"
    /\ \E rs \in ResourceLists :
        /\ analyzed' = rs
        /\ result' = analyze_resources(rs)
    /\ phase' = "analyzed"
    /\ UNCHANGED <<config, readme, _kustomize_path_mapping, fs, kustomize, markdown, rest, out,
                   calls, matches, browser>>
    /\ UNCHANGED files

\* The caller has looked at the table; the plugin is as it was before the call.
DoneAnalyzeResources ==
    /\ phase = "analyzed"
    /\ phase' = "constructed"
    /\ analyzed' = <<>>
    /\ result' = Ok(<<>>)
    /\ UNCHANGED <<config, readme, _kustomize_path_mapping, fs, kustomize, markdown, rest, out,
                   calls, matches, browser>>
    /\ UNCHANGED files

AnalyzeNext == CallAnalyzeResources \/ DoneAnalyzeResources

AnalyzeSpec == AnalyzeInit /\ [][AnalyzeNext]_vars

----------------------------------------------------------------------------
(* The page in a browser.  The table, the style block and the script that   *)
(* analyze_resources emits (lines 539-702) are read as a browser reads them: *)
(* the markup becomes a tree of elements, the style rules select elements   *)
(* of that tree, and every script element is evaluated into a closure with *)
(* its own isSetup, observer and urlCheckInterval.                         *)

\* An element and the events of a parser: an element opens, closes, or is void.
OpenTag(tag, classes, attrs) ==
    [ev |-> "open", tag |-> tag, classes |-> classes, attrs |-> attrs]
VoidTag(tag, classes, attrs) ==
    [ev |-> "void", tag |-> tag, classes |-> classes, attrs |-> attrs]
CloseTag == [ev |-> "close", tag |-> "", classes |-> {}, attrs |-> <<>>]

\* The elements one emitted line opens and closes (lines 539-558); a line of text, of
\* the style block or of the script opens none.
TagsOf(l) ==
    CASE l = <<"<div class=mkdocs-kustomize-plugin>">> ->
            <<OpenTag("div", {".mkdocs-kustomize-plugin"}, <<>>)>>
      [] l = <<"<table class=resource-table>">> ->
            <<OpenTag("table", {".resource-table"}, <<>>)>>
      [] l[1] = "<thead>" -> <<OpenTag("thead", {}, <<>>), CloseTag>>
      [] l = <<"<tbody>">> -> <<OpenTag("tbody", {}, <<>>)>>
      [] l = <<"<tr class=resource-row>">> -> <<OpenTag("tr", {".resource-row"}, <<>>)>>
      [] l[1] = "<td>" ->
            <<OpenTag("td", {}, <<>>), OpenTag("span", {".resource-api-info"}, <<>>),
              CloseTag, CloseTag>>
      [] l[1] = "<td title=" -> <<OpenTag("td", {}, <<>>), CloseTag>>
      [] l[1] = "<td><input type=checkbox id=" ->
            <<OpenTag("td", {}, <<>>),
              VoidTag("input", {".k8s-yaml-checkbox"}, ("id" :> SubSeq(l, 2, 4))),
              OpenTag("label", {".k8s-yaml-toggle"}, ("for" :> SubSeq(l, 10, 12))),
              CloseTag, CloseTag>>
      [] l[1] = "<tr id=" ->
            <<OpenTag("tr", {".k8s-yaml-row"},
                      ("id" :> SubSeq(l, 2, 4)) @@ ("data-yaml-id" :> SubSeq(l, 6, 7)))>>
      [] l = <<"<td colspan=4>">> -> <<OpenTag("td", {}, <<>>)>>
      [] l = <<"<div class=resource-details>">> ->
            <<OpenTag("div", {".resource-details"}, <<>>)>>
      [] l \in {<<"</tr>">>, <<"</td>">>, <<"</div>">>, <<"</tbody>">>, <<"</table>">>} ->
            <<CloseTag>>
      [] OTHER -> <<>>

\* The events of a text, line after line: the k-th event of line i is at position
\* offset[i] + k.
Flatten(text, places, offset) ==
    [n \in 1..Cardinality(places) |->
        LET At(p) == TagsOf(text[p[1]])[p[2]]
        IN At(CHOOSE p \in places : offset[p[1]] + p[2] = n)]

Placed(text, places) ==
    Flatten(text, places,
            [i \in DOMAIN text |-> Cardinality({q \in places : q[1] < i})])

TagsOfText(text) ==
    Placed(text, {p \in (DOMAIN text) \X (1..5) : p[2] <= Len(TagsOf(text[p[1]]))})

\* The tree of elements: the elements in document order, each with the index of its
\* parent (0 for the body).  The parent of an element is the nearest element opened
\* before it at the depth just above.
Tree(events, depth, index) ==
    LET elements == {i \in DOMAIN events : events[i].ev # "close"}
        Parent(i) ==
            LET above == {j \in 1..(i - 1) :
                            events[j].ev = "open" /\ depth[j] = depth[i] - 1}
            IN IF above = {} THEN 0
               ELSE index[CHOOSE j \in above : \A y \in above : y <= j]
        Node(i) == [tag |-> events[i].tag, classes |-> events[i].classes,
                    attrs |-> events[i].attrs, parent |-> Parent(i)]
    IN [k \in 1..Cardinality(elements) |->
            Node(CHOOSE i \in elements : index[i] = k)]

Nesting(events) ==
    Tree(events,
         [i \in DOMAIN events |->
            Cardinality({j \in 1..(i - 1) : events[j].ev = "open"})
            - Cardinality({j \in 1..(i - 1) : events[j].ev = "close"})],
         [i \in DOMAIN events |->
            Cardinality({j \in 1..i : events[j].ev # "close"})])

Dom(text) == Nesting(TagsOfText(text))

\* The element before n among the children of n's parent, 0 when n is the first child.
PreviousSibling(document, n) ==
    LET before == {m \in 1..(n - 1) : document[m].parent = document[n].parent}
    IN IF before = {} THEN 0 ELSE CHOOSE m \in before : \A y \in before : y <= m

\* document.getElementById and document.querySelector('tr[data-yaml-id="..."]'): the
\* first element in document order, 0 for null.
FirstOf(S) == IF S = {} THEN 0 ELSE CHOOSE n \in S : \A y \in S : n <= y
getElementById(document, id) ==
    FirstOf({n \in DOMAIN document :
            "id" \in DOMAIN document[n].attrs /\ document[n].attrs["id"] = id})
querySelectorYamlId(document, id) ==
    FirstOf({n \in DOMAIN document :
            /\ document[n].tag = "tr"
            /\ "data-yaml-id" \in DOMAIN document[n].attrs
            /\ document[n].attrs["data-yaml-id"] = id})

\* document.querySelectorAll('.k8s-yaml-toggle')
Toggles(document) == {n \in DOMAIN document : ".k8s-yaml-toggle" \in document[n].classes}

\* The style rules of a text (lines 563-574): the lines with a display declaration.
IsRule(l) == Len(l) >= 4 /\ l[Len(l) - 2] = "{display:"
StyleRules(text) == SelectSeq(text, IsRule)
SelectorOf(rule) == SubSeq(rule, 1, Len(rule) - 3)
DisplayOf(rule) == rule[Len(rule) - 1]

RECURSIVE Compounds(_)
\* A selector split at its adjacent-sibling combinators.
Compounds(selector) ==
    LET plus == {i \in DOMAIN selector : selector[i] = "+"}
        At(i) == <<SubSeq(selector, 1, i - 1)>>
                    \o Compounds(SubSeq(selector, i + 1, Len(selector)))
    IN IF plus = {} THEN <<selector>> ELSE At(FirstOf(plus))

\* A simple selector holds of element n: a type, an attribute, :checked, or a class.
MatchesSimple(s, document, n, checked, expanded) ==
    CASE s = "tr" -> document[n].tag = "tr"
      [] s = "[data-yaml-id]" -> "data-yaml-id" \in DOMAIN document[n].attrs
      [] s = ":checked" -> n \in checked
      [] s = ".k8s-yaml-expanded" -> n \in expanded
      [] OTHER -> s \in document[n].classes

RECURSIVE MatchesChain(_, _, _, _, _)
\* The compounds c1 + ... + ck select n: ck holds of n and c1 + ... + c(k-1) selects the
\* element just before n under the same parent.
MatchesChain(compounds, document, n, checked, expanded) ==
    /\ n # 0
    /\ \A i \in DOMAIN compounds[Len(compounds)] :
            MatchesSimple(compounds[Len(compounds)][i], document, n, checked, expanded)
    /\ Len(compounds) > 1 =>
            MatchesChain(SubSeq(compounds, 1, Len(compounds) - 1), document,
                         PreviousSibling(document, n), checked, expanded)

\* The specificity of a selector: a type counts 1, anything else 10.
RECURSIVE Specificity(_)
Specificity(selector) ==
    IF selector = <<>> THEN 0
    ELSE (CASE Head(selector) = "+" -> 0 [] Head(selector) = "tr" -> 1 [] OTHER -> 10)
         + Specificity(Tail(selector))

\* The display of element n under the rules: the declaration of the matching rule of
\* the highest specificity, the later rule on a tie; without a matching rule a table
\* row is displayed as a table row.
Display(rules, document, n, checked, expanded) ==
    LET matching == {r \in DOMAIN rules :
                        MatchesChain(Compounds(SelectorOf(rules[r])), document, n,
                                     checked, expanded)}
        Wins(r) == \A q \in matching :
                        \/ Specificity(SelectorOf(rules[q])) < Specificity(SelectorOf(rules[r]))
                        \/ /\ Specificity(SelectorOf(rules[q])) = Specificity(SelectorOf(rules[r]))
                           /\ q <= r
    IN IF matching = {} THEN "table-row"
       ELSE DisplayOf(rules[CHOOSE r \in matching : Wins(r)])

\* The script elements of a text (line 592), one per table.
Scripts(text) == Len(SelectSeq(text, LAMBDA l : l = <<"<script>setupYamlToggles</script>">>))

\* The pages a browser is given: a title and up to MaxTables tables of two resources.
TableText ==
    analyze_resources(
        [k \in 1..2 |-> Manifest(("apiVersion" :> Str("v1")),
                                 ("metadata" :> Dict([name |-> Str("cm")])))]).v
PageOf(tables) == << <<"# Test Page">> >> \o Concat([t \in 1..tables |-> TableText])

\* The documents of the pages, by the number of their tables.
PageDocuments == [tables \in 0..MaxTables |-> Dom(PageOf(tables))]

\* initializeYamlToggles, lines 601-620: every toggle without data-initialized gets the
\* attribute and one more click listener.
initializeYamlToggles(b) ==
    [b EXCEPT !.initialized = Toggles(PageDocuments[b.page]),
              !.handlers = [n \in Toggles(PageDocuments[b.page]) |->
                                IF n \in b.initialized THEN b.handlers[n]
                                ELSE b.handlers[n] + 1]]

\* The closure of one evaluated script after setupYamlToggles, lines 622-679: isSetup is
\* set, an observer is connected, the URL poll is started; records are the mutation
\* records not yet delivered to the observer.
Closure(url) ==
    [isSetup |-> TRUE, observer |-> TRUE, urlCheckInterval |-> TRUE, lastUrl |-> url,
     observerTimeout |-> FALSE, records |-> FALSE]

\* The scripts of a text are evaluated one after the other in a loaded document (lines
\* 695-699): each runs setupYamlToggles, the first one binds the toggles.
Evaluate(b) ==
    [initializeYamlToggles(b) EXCEPT
        !.closures = b.closures \o [i \in 1..Scripts(PageOf(b.page)) |-> Closure(b.url)]]

\* The document of a page just parsed: no element is checked, expanded or initialized.
Parsed(b, tables) ==
    [b EXCEPT !.page = tables,
              !.checked = {},
              !.expanded = {},
              !.initialized = {},
              !.handlers = [n \in Toggles(PageDocuments[tables]) |-> 0]]

\* The childList records of a change reach every connected observer.
Recorded(closures) ==
    [i \in DOMAIN closures |->
        IF closures[i].observer THEN [closures[i] EXCEPT !.records = TRUE]
        ELSE closures[i]]

BrowserInit ==
    /\ config = [enable_rendering |-> TRUE, kustomize_dirs |-> <<>>, auto_nav_path |-> ""]
    /\ fs = <<>>
    /\ kustomize = [tool |-> "installed", build |-> <<>>]
    /\ _kustomize_path_mapping = <<>>
    /\ phase = "constructed"
    /\ markdown = <<>>
    /\ rest = <<>>
    /\ out = <<>>
    /\ calls = <<>>
    /\ matches = <<>>
    /\ result = Ok(<<>>)
    /\ analyzed = <<>>
    /\ readme = <<>>
    /\ files = <<>>
    /\ \E scripting \in BOOLEAN, app \in BOOLEAN :
        /\ scripting \/ ~app
        /\ browser = [scripting |-> scripting, app |-> app, url |-> 0,
                      transitions |-> 0, page |-> 0,
                      checked |-> {}, expanded |-> {}, initialized |-> {},
                      handlers |-> <<>>, closures |-> <<>>, timeouts |-> 0]

\* A page is loaded by a full navigation: the closures of the page before run cleanup
\* on beforeunload (lines 682-692, 701) and go with their document, the text is parsed,
\* and with a scripting runtime every script of the page is set up on DOMContentLoaded.
PageLoad ==
    /\ browser.transitions < MaxTransitions
    /\ \E tables \in 0..MaxTables :
        LET loaded == Parsed([browser EXCEPT !.url = browser.url + 1,
                                             !.transitions = browser.transitions + 1,
                                             !.closures = <<>>,
                                             !.timeouts = 0], tables)
        IN browser' = IF browser.scripting THEN Evaluate(loaded) ELSE loaded
    /\ UNCHANGED <<config, readme, _kustomize_path_mapping, fs, kustomize, phase, markdown, rest,
                   out, calls, matches, result, analyzed>>
    /\ UNCHANGED files

\* The location changes without a load (instant navigation): the host replaces the
\* content by that of another page; nothing is unloaded, so no closure runs cleanup.
\* The host may evaluate the scripts of the new content or leave them alone.  Every
\* closure subscribed to app.location$ sets a timer for initializeYamlToggles (lines
\* 667-672), and the connected observers are handed the change.
LocationChange ==
    /\ browser.scripting
    /\ browser.url > 0
    /\ browser.transitions < MaxTransitions
    /\ \E tables \in 0..MaxTables, evaluates \in BOOLEAN :
        LET subscribed == IF browser.app THEN Len(browser.closures) ELSE 0
            swapped == Parsed([browser EXCEPT !.url = browser.url + 1,
                                              !.transitions = browser.transitions + 1,
                                              !.closures = Recorded(browser.closures),
                                              !.timeouts = browser.timeouts + subscribed],
                              tables)
        IN /\ browser.timeouts + subscribed <= MaxTimeouts
           /\ browser' = IF evaluates THEN Evaluate(swapped) ELSE swapped
    /\ UNCHANGED <<config, readme, _kustomize_path_mapping, fs, kustomize, phase, markdown, rest,
                   out, calls, matches, result, analyzed>>
    /\ UNCHANGED files

\* The host inserts the content of the page again, as new elements, at the same
\* location; the connected observers are handed the change.
DomMutation ==
    /\ browser.scripting
    /\ browser.url > 0
    /\ browser.closures # <<>>
    /\ browser' = Parsed([browser EXCEPT !.closures = Recorded(browser.closures)],
                         browser.page)
    /\ UNCHANGED <<config, readme, _kustomize_path_mapping, fs, kustomize, phase, markdown, rest,
                   out, calls, matches, result, analyzed>>
    /\ UNCHANGED files

\* The callback of an observer, lines 630-654: unless its timer is pending, it sets one
\* when an added element holds a toggle without data-initialized.
ObserverCallback ==
    /\ \E i \in DOMAIN browser.closures :
        /\ browser.closures[i].records
        /\ browser' =
            [browser EXCEPT
                !.closures[i].records = FALSE,
                !.closures[i].observerTimeout =
                    \/ browser.closures[i].observerTimeout
                    \/ Toggles(PageDocuments[browser.page]) \ browser.initialized # {}]
    /\ UNCHANGED <<config, readme, _kustomize_path_mapping, fs, kustomize, phase, markdown, rest,
                   out, calls, matches, result, analyzed>>
    /\ UNCHANGED files

\* The timer of an observer fires, lines 648-651.
ObserverTimeout ==
    /\ \E i \in DOMAIN browser.closures :
        /\ browser.closures[i].observerTimeout
        /\ browser' = [initializeYamlToggles(browser) EXCEPT
                            !.closures[i].observerTimeout = FALSE]
    /\ UNCHANGED <<config, readme, _kustomize_path_mapping, fs, kustomize, phase, markdown, rest,
                   out, calls, matches, result, analyzed>>
    /\ UNCHANGED files

\* A tick of the URL poll of one closure, lines 675-681.
UrlPoll ==
    /\ \E i \in DOMAIN browser.closures :
        /\ browser.closures[i].urlCheckInterval
        /\ browser.closures[i].lastUrl # browser.url
        /\ browser.timeouts < MaxTimeouts
        /\ browser' = [browser EXCEPT !.closures[i].lastUrl = browser.url,
                                      !.timeouts = browser.timeouts + 1]
    /\ UNCHANGED <<config, readme, _kustomize_path_mapping, fs, kustomize, phase, markdown, rest,
                   out, calls, matches, result, analyzed>>
    /\ UNCHANGED files

\* A timer set by setTimeout(initializeYamlToggles, 100) fires.
Timeout ==
    /\ browser.timeouts > 0
    /\ browser' = [initializeYamlToggles(browser) EXCEPT
                        !.timeouts = browser.timeouts - 1]
    /\ UNCHANGED <<config, readme, _kustomize_path_mapping, fs, kustomize, phase, markdown, rest,
                   out, calls, matches, result, analyzed>>
    /\ UNCHANGED files

\* The user activates a toggle.  Every click listener bound to it runs (lines 605-618):
\* it prevents the default action and toggles k8s-yaml-expanded on the row that
\* querySelector finds for the checkbox of the label.  Without a listener the default
\* action of the label toggles the checkbox its for attribute names.
Click ==
    /\ \E n \in Toggles(PageDocuments[browser.page]) :
        LET checkbox == getElementById(PageDocuments[browser.page], PageDocuments[browser.page][n].attrs["for"])
            Row(id) == querySelectorYamlId(PageDocuments[browser.page],
                                           SelectSeq(id, LAMBDA f : f # "-check"))
            Flip(S, x) == IF x \in S THEN S \ {x} ELSE S \cup {x}
            Listened(row) ==
                IF row = 0 \/ browser.handlers[n] % 2 = 0 THEN browser
                ELSE [browser EXCEPT !.expanded = Flip(browser.expanded, row)]
        IN /\ checkbox # 0
           /\ browser' =
                IF browser.handlers[n] > 0
                THEN Listened(Row(PageDocuments[browser.page][checkbox].attrs["id"]))
                ELSE [browser EXCEPT !.checked = Flip(browser.checked, checkbox)]
    /\ UNCHANGED <<config, readme, _kustomize_path_mapping, fs, kustomize, phase, markdown, rest,
                   out, calls, matches, result, analyzed>>
    /\ UNCHANGED files

BrowserNext ==
    \/ PageLoad
    \/ LocationChange
    \/ DomMutation
    \/ ObserverCallback
    \/ ObserverTimeout
    \/ UrlPoll
    \/ Timeout
    \/ Click

BrowserSpec == BrowserInit /\ [][BrowserNext]_vars

----------------------------------------------------------------------------
(* Discovery on its own: the callbacks of a build without pages, over trees *)
(* whose directories hold any of the three file names on_files looks for.  *)

FileNames == {"kustomization.yaml", "kustomization.yml", "README.md"}

\* The trees under nav: nav and nav/app with every set of the file names, nav/app/base
\* and nav/lib absent or with some of them; and no nav at all.
Trees ==
    {<<>>}
    \cup {("nav" :> n) @@ app @@ lib :
            n \in SUBSET FileNames,
            app \in {<<>>}
                \cup {("nav/app" :> a) @@ base :
                        a \in SUBSET FileNames,
                        base \in {<<>>,
                                  ("nav/app/base" :> {"kustomization.yaml", "README.md"}),
                                  ("nav/app/base" :> {"kustomization.yml"})}},
            lib \in {<<>>, ("nav/lib" :> {"README.md"})}}

DiscoveryInit ==
    /\ \E tree \in Trees, enable \in BOOLEAN, nav \in {"", "nav"} :
        /\ config = [enable_rendering |-> enable, kustomize_dirs |-> <<>>,
                     auto_nav_path |-> nav]
        /\ fs = tree
    /\ kustomize = [tool |-> "installed", build |-> <<>>]
    /\ _kustomize_path_mapping = <<>>
    /\ phase = "constructed"
    /\ markdown = <<>>
    /\ rest = <<>>
    /\ out = <<>>
    /\ calls = <<>>
    /\ matches = <<>>
    /\ result = Ok(<<>>)
    /\ analyzed = <<>>
    /\ browser = <<>>
    /\ readme = ReadmeOf(fs)
    /\ files = <<>>

DiscoveryNext == on_config \/ on_files \/ on_nav \/ on_page_context \/ on_post_build

DiscoverySpec == DiscoveryInit /\ [][DiscoveryNext]_vars

----------------------------------------------------------------------------
(* The generated pages: on_files on trees whose README.md files differ and  *)
(* whose directories may carry a bracket in their name, followed by the     *)
(* rendering of the pages, those that on_files generated among them.        *)

\* The README.md of nav/app: a title alone, a README that shows a directive of the
\* plugin, and a README whose only heading is inside a code block.
Readmes ==
    {Readme,
     << <<"# ", "App">>, <<Fence, "kustomize", " ", "lib">>, <<Fence>> >>,
     << <<Fence, "sh">>, <<"# ", "install">>, <<Fence>>, <<"notes">> >>}

PageTrees ==
    {("nav" :> n) @@ ("nav/app" :> Files) @@ more :
        n \in {{}, Files},
        more \in {<<>>, ("nav/app[1]" :> Files), ("nav/lib" :> Files)}}

PageInit ==
    /\ \E tree \in PageTrees, text \in Readmes :
        /\ fs = tree
        /\ readme = ("nav/app" :> text) @@ ReadmeOf(tree)
        /\ kustomize = [tool |-> "installed",
                        build |-> [d \in DOMAIN tree |-> DefaultBuild(d)]]
    /\ config = [enable_rendering |-> TRUE, kustomize_dirs |-> <<>>, auto_nav_path |-> "nav"]
    /\ _kustomize_path_mapping = <<>>
    /\ phase = "constructed"
    /\ markdown = <<>>
    /\ rest = <<>>
    /\ out = <<>>
    /\ calls = <<>>
    /\ matches = <<>>
    /\ result = Ok(<<>>)
    /\ analyzed = <<>>
    /\ browser = <<>>
    /\ files = <<>>

PageSpec == PageInit /\ [][Next]_vars

----------------------------------------------------------------------------
(* The properties of on_page_markdown.  A record of matches is one directive  *)
(* the running call has replaced (or failed on), in text order.               *)

\* A fenced YAML block around the lines given.
YamlBlock(lines) == << <<Fence, "yaml">> >> \o lines \o << <<Fence>> >>

\* The override text of a directive, as replace_match takes it.
OverrideOf(x) == strip(x.body)

\* Whether the directive asks for the analysis.
HasAnalyze(x) == "analyze" \in DOMAIN ParseOptions(x.options, <<>>)

\* The directive was resolved and its build succeeded.
BuildSucceeded(x) == x.resolved.found /\ Run(x.resolved.dir).ok

\* The text the builder printed for a directive whose build succeeded.
StdoutOf(x) == Run(x.resolved.dir).v.stdout

\* A value that has a kind and a name to go by: a mapping whose metadata, if any, is a
\* mapping.
HasIdentity(v) == isinstance_dict(v) /\ isinstance_dict(Get(v, "metadata", EmptyDict).v)

\* The (kind, name) pair of such a value.
Identity(v) == <<Get(v, "kind", None).v, Get(Get(v, "metadata", EmptyDict).v, "name", None).v>>

\* Whether a document of the stream has the identity of the override.
Named(override, doc) ==
    HasIdentity(override) /\ HasIdentity(doc) /\ Identity(override) = Identity(doc)

\* The directive has a mapping override and a stream to merge it into.
HasMappingOverride(x) ==
    /\ BuildSucceeded(x)
    /\ OverrideOf(x) # <<>>
    /\ safe_load_all(StdoutOf(x)).ok
    /\ safe_load(OverrideOf(x)).ok
    /\ isinstance_dict(safe_load(OverrideOf(x)).v)
    /\ Truthy(safe_load(OverrideOf(x)).v)

\* The documents of the stream of such a directive, and the override as a value.
DocsOf(x) == safe_load_all(StdoutOf(x)).v
OverrideValue(x) == safe_load(OverrideOf(x)).v

\* The positions of the documents that have the identity of the override.
NamedIn(x) == {j \in DOMAIN DocsOf(x) : Named(OverrideValue(x), DocsOf(x)[j])}

\* C1: no failure a directive can hit makes on_page_markdown raise: the call returns,
\* and every directive it has processed was replaced by a text.
C1_FailuresContained ==
    /\ phase # "raised"
    /\ \A i \in DOMAIN matches : matches[i].ret.ok

\* C2: when the builder fails on a resolved directory (non-zero exit, or no tool), the
\* directive is replaced by a fenced YAML block whose one line is the error comment with
\* the diagnostic of the builder.
C2_BuilderFailureBlock ==
    \A i \in DOMAIN matches :
        LET Failed(x, run) ==
                (x.resolved.found /\ ~run.ok) =>
                    /\ x.ret.ok
                    /\ Len(x.ret.v) = 3
                    /\ x.ret.v[1] = <<Fence, "yaml">>
                    /\ Len(x.ret.v[2]) = 2
                    /\ x.ret.v[2][1] = "# Error running kustomize: "
                    /\ ("stderr" \in DOMAIN run => x.ret.v[2][2] = run.stderr.s)
                    /\ x.ret.v[3] = <<Fence>>
        IN Failed(matches[i], Run(matches[i].resolved.dir))

BuildsOf(found) == [k \in DOMAIN found |-> <<"kustomize", "build", found[k].resolved.dir>>]

\* C4: a token is resolved in a fixed order.  A token of the discovery table stands for
\* its table entry; else an existing directory (absolute, or relative to the working
\* directory) stands for itself; else the first search root, in configured order, under
\* which it is a directory; else it is not found and no builder is started.  The builder
\* runs on the directory of the first hit.
C4_ResolutionOrder ==
    /\ \A i \in DOMAIN matches :
        LET Holds(t, r, hits) ==
                /\ t \in DOMAIN _kustomize_path_mapping =>
                        r.found /\ r.dir = _kustomize_path_mapping[t]
                /\ (t \notin DOMAIN _kustomize_path_mapping /\ isdir(t)) =>
                        r.found /\ r.dir = t
                /\ (t \notin DOMAIN _kustomize_path_mapping /\ ~isdir(t) /\ hits # {}) =>
                        /\ r.found
                        /\ r.dir = join(config.kustomize_dirs[
                                            CHOOSE a \in hits : \A b \in hits : a <= b], t)
                /\ (t \notin DOMAIN _kustomize_path_mapping /\ ~isdir(t) /\ hits = {}) =>
                        ~r.found
           IN Holds(matches[i].token, matches[i].resolved,
                    {k \in DOMAIN config.kustomize_dirs :
                        isdir(join(config.kustomize_dirs[k], matches[i].token))})
    /\ calls = BuildsOf(SelectSeq(matches, LAMBDA x : x.resolved.found))

\* A token of the discovery table that is also a directory of its own was resolved to
\* its table entry, and a token under both search roots to the first of them.
C4_Witness ==
    \/ \E i \in DOMAIN matches :
        /\ matches[i].token \in DOMAIN _kustomize_path_mapping
        /\ isdir(matches[i].token)
        /\ matches[i].resolved.dir = _kustomize_path_mapping[matches[i].token]
        /\ matches[i].resolved.dir # matches[i].token
        /\ calls # <<>>
    \/ /\ Len(matches) >= 1
       /\ matches[1].resolved.by = "root"
       /\ \A k \in DOMAIN config.kustomize_dirs :
            isdir(join(config.kustomize_dirs[k], matches[1].token))
       /\ calls # <<>>

\* C5 as stated: an override naming exactly one document of the stream gives a stream of
\* as many documents in the same order, with the top-level keys of the named document
\* replaced by those of the override and every other document as built.
C5_SingleMatchMerge ==
    \A i \in DOMAIN matches :
        LET Holds(x) ==
                (HasMappingOverride(x) /\ Cardinality(NamedIn(x)) = 1) =>
                    /\ x.ret.ok
                    /\ ~HasAnalyze(x) =>
                        x.ret.v = YamlBlock(dump_all(
                            [j \in DOMAIN DocsOf(x) |->
                                IF j \in NamedIn(x)
                                THEN Update(DocsOf(x)[j], OverrideValue(x))
                                ELSE DocsOf(x)[j]]))
        IN Holds(matches[i])

\* C6 as stated: a mapping override that names no document of the stream leaves every
\* document as built, and the stream is emitted re-serialized.
C6_NoMatchNoChange ==
    \A i \in DOMAIN matches :
        LET Holds(x) ==
                (HasMappingOverride(x) /\ NamedIn(x) = {}) =>
                    /\ x.ret.ok
                    /\ ~HasAnalyze(x) => x.ret.v = YamlBlock(dump_all(DocsOf(x)))
        IN Holds(matches[i])

\* The directive has an override text that does not parse.
HasUnparsableOverride(x) ==
    BuildSucceeded(x) /\ OverrideOf(x) # <<>> /\ ~safe_load(OverrideOf(x)).ok

\* C7: an override that does not parse turns the directive into a fenced YAML block
\* holding the error comment and then the override text as written; the call does not
\* raise and goes on to the next directive.
C7_UnparsableOverrideBlock ==
    \A i \in DOMAIN matches :
        LET Holds(x) ==
                HasUnparsableOverride(x) =>
                    /\ x.ret.ok
                    /\ Len(x.ret.v) = 3 + Len(OverrideOf(x))
                    /\ x.ret.v[1] = <<Fence, "yaml">>
                    /\ x.ret.v[2][1] = "# Error parsing YAML: "
                    /\ SubSeq(x.ret.v, 3, Len(x.ret.v) - 1) = OverrideOf(x)
                    /\ x.ret.v[Len(x.ret.v)] = <<Fence>>
                    /\ (i = Len(matches) => phase # "raised")
        IN Holds(matches[i])

\* A directive with an unparsable override was replaced and the scan went on to a later
\* directive.
C7_Witness ==
    \E i \in DOMAIN matches :
        /\ HasUnparsableOverride(matches[i])
        /\ i < Len(matches)

\* The token is in no place the resolution looks at.
Unresolvable(t) ==
    /\ t \notin DOMAIN _kustomize_path_mapping
    /\ ~isdir(t)
    /\ \A k \in DOMAIN config.kustomize_dirs : ~isdir(join(config.kustomize_dirs[k], t))

\* C8: a token that is in no discovery table entry, is no directory and is under no
\* search root turns the directive into the error comment block naming the token as
\* written; nothing is raised.
C8_NotFoundBlock ==
    \A i \in DOMAIN matches :
        Unresolvable(matches[i].token) =>
            /\ matches[i].ret = Ok(YamlBlock(<< <<"# Error: Kustomize directory '",
                                                 matches[i].token, "' not found">> >>))
            /\ (i = Len(matches) => phase # "raised")

\* A directive with an unresolvable token was replaced, with search roots configured.
C8_Witness ==
    \E i \in DOMAIN matches :
        /\ Unresolvable(matches[i].token)
        /\ config.kustomize_dirs # <<>>
        /\ matches[i].ret.ok

\* C9: with an empty override, no analyze option and a successful build, the directive
\* is replaced by the text the builder printed, as printed, in a fenced YAML block.
C9_VerbatimOutput ==
    \A i \in DOMAIN matches :
        LET Holds(x) ==
                (BuildSucceeded(x) /\ OverrideOf(x) = <<>> /\ ~HasAnalyze(x)) =>
                    x.ret = Ok(YamlBlock(StdoutOf(x)))
        IN Holds(matches[i])

\* Such a directive was replaced, and the text printed is not what a re-serialization of
\* it would be.
C9_Witness ==
    \E i \in DOMAIN matches :
        LET Is(x) ==
                /\ BuildSucceeded(x) /\ OverrideOf(x) = <<>> /\ ~HasAnalyze(x)
                /\ x.ret.ok
                /\ safe_load_all(StdoutOf(x)).ok
                /\ dump_all(safe_load_all(StdoutOf(x)).v) # StdoutOf(x)
        IN Is(matches[i])

\* C10: with rendering disabled, on_page_markdown returns the text it was given: no
\* directive is scanned for, no token resolved, no builder called.
C10_DisabledReturnsInput ==
    ~config.enable_rendering =>
        /\ matches = <<>>
        /\ calls = <<>>
        /\ phase \notin {"scanning", "raised"}
        /\ (phase = "returned" => result = Ok(markdown))

\* A call with rendering disabled has returned on a text that holds a directive.
C10_Witness ==
    /\ ~config.enable_rendering
    /\ phase = "returned"
    /\ FindMatch(markdown).found

\* The option list gives analyze the value true: the last option of key analyze is a
\* bare key, or has a value that is "true" when lower-cased.
AnalyzeTrue(frags) ==
    LET named == {k \in DOMAIN frags : Option[frags[k]].key = "analyze"}
        Last(k) == Option[frags[k]].eq => Option[frags[k]].lower = "true"
    IN named # {} /\ Last(CHOOSE a \in named : \A b \in named : b <= a)

\* The directive was rendered: its build succeeded and neither an exception nor the
\* error block of an unparsable override or stream came of it.
Rendered(x) ==
    /\ BuildSucceeded(x)
    /\ x.ret.ok
    /\ OverrideOf(x) # <<>> =>
            safe_load(OverrideOf(x)).ok /\ safe_load_all(StdoutOf(x)).ok

\* C11: a rendered directive is a resource table exactly when its option list gives
\* analyze the value true (a bare key, or a value that lower-cased is "true"); with no
\* option list, or analyze of another value, it is a fenced YAML block.
C11_AnalyzeOption ==
    \A i \in DOMAIN matches :
        LET Holds(x) ==
                Rendered(x) =>
                    IF AnalyzeTrue(x.options)
                    THEN x.ret.v[1] = <<"## Resources Analysis">>
                    ELSE /\ x.ret.v[1] = <<Fence, "yaml">>
                         /\ x.ret.v[Len(x.ret.v)] = <<Fence>>
        IN Holds(matches[i])

\* A directive whose only option is the bare key analyze was rendered as a table.
C11_Witness ==
    \E i \in DOMAIN matches :
        /\ Rendered(matches[i])
        /\ matches[i].options = <<"analyze">>
        /\ matches[i].ret.v[1] = <<"## Resources Analysis">>

\* The mapping-typed entries of a list of resources, in order.
Mappings(entries) == SelectSeq(entries, isinstance_dict)

\* The lines of a table that open a details row, a resource row, and the cells that
\* carry a title (name and namespace, in that order, for every resource row).
DetailRows(text) == SelectSeq(text, LAMBDA l : Len(l) >= 1 /\ l[1] = "<tr id=")
ResourceRows(text) == SelectSeq(text, LAMBDA l : l = <<"<tr class=resource-row>">>)
TitleCells(text) == SelectSeq(text, LAMBDA l : Len(l) >= 1 /\ l[1] = "<td title=")
KindCells(text) == SelectSeq(text, LAMBDA l : Len(l) >= 1 /\ l[1] = "<td>")

\* The identifier a details row carries (data-yaml-id).
DetailIdOf(l) == <<l[2], l[3]>>

RECURSIVE YamlBlocks(_)
\* The contents of the fenced YAML blocks of a text, in order.
YamlBlocks(text) ==
    LET opens == {i \in DOMAIN text : text[i] = <<Fence, "yaml">>}
        From(i) ==
            LET closes == {j \in (i + 1)..Len(text) : text[j] = <<Fence>>}
                To(j) == <<SubSeq(text, i + 1, j - 1)>>
                            \o YamlBlocks(SubSeq(text, j + 1, Len(text)))
            IN IF closes = {} THEN <<>>
               ELSE To(CHOOSE j \in closes : \A y \in closes : j <= y)
    IN IF opens = {} THEN <<>>
       ELSE From(CHOOSE i \in opens : \A y \in opens : i <= y)

\* C12 as stated: within the text one on_page_markdown call returns, the identifiers of
\* the details rows are pairwise distinct, across the tables of different analyze
\* directives too.
C12_DetailIdsUnique ==
    (phase = "returned" /\ result.ok) =>
        LET Holds(rows) ==
                \A i, j \in DOMAIN rows :
                    DetailIdOf(rows[i]) = DetailIdOf(rows[j]) => i = j
        IN Holds(DetailRows(result.v))

\* C13 as stated: for every list, analyze_resources emits one row pair per mapping-typed
\* entry, in input order, and the k-th of them carries the identifier resource-k: an
\* entry that is no mapping is skipped and shifts no identifier.
C13_RowPerMapping ==
    phase = "analyzed" =>
        /\ result.ok
        /\ LET Holds(text, mappings) ==
                /\ Len(ResourceRows(text)) = Len(mappings)
                /\ Len(DetailRows(text)) = Len(mappings)
                /\ \A k \in DOMAIN mappings :
                    /\ DetailIdOf(DetailRows(text)[k]) = <<"resource-", Numeral[k]>>
                    /\ YamlBlocks(text)[k] = dump(mappings[k])
           IN Holds(result.v, Mappings(analyzed))

\* The apiVersion of a resource is absent or a string, and its metadata absent or a
\* mapping.
PlainResource(r) ==
    /\ "apiVersion" \in DOMAIN r.d => r.d["apiVersion"].t = "str"
    /\ "metadata" \in DOMAIN r.d => isinstance_dict(r.d["metadata"])

\* C14 as stated: the API-info label of a row is group/version when the apiVersion has a
\* slash and the bare apiVersion otherwise, and no apiVersion string makes the call
\* raise, a leading slash or several slashes included.
C14_ApiInfoLabel ==
    (/\ phase = "analyzed"
     /\ \A k \in DOMAIN Mappings(analyzed) : PlainResource(Mappings(analyzed)[k])) =>
        /\ result.ok
        /\ LET Holds(text, mappings) ==
                \A k \in DOMAIN mappings :
                    LET Label(api_version) ==
                            api_version \in {"", "v1", "apps/v1"} =>
                                KindCells(text)[k][4] = api_version
                    IN Label(IF "apiVersion" \in DOMAIN mappings[k].d
                             THEN mappings[k].d["apiVersion"].s ELSE "")
           IN Holds(result.v, Mappings(analyzed))

\* The resource has no namespace value: no metadata, no namespace key, or a null one.
NoNamespace(r) ==
    \/ "metadata" \notin DOMAIN r.d
    \/ ~isinstance_dict(r.d["metadata"])
    \/ "namespace" \notin DOMAIN r.d["metadata"].d
    \/ r.d["metadata"].d["namespace"] = None

\* C15 as stated: the namespace cell of a mapping without a metadata.namespace value is
\* an empty cell, its title and its text both empty.
C15_EmptyNamespaceCell ==
    (/\ phase = "analyzed"
     /\ \A k \in DOMAIN Mappings(analyzed) :
            /\ PlainResource(Mappings(analyzed)[k])
            /\ "apiVersion" \in DOMAIN Mappings(analyzed)[k].d =>
                    Mappings(analyzed)[k].d["apiVersion"].s # "a/b/v1") =>
        /\ result.ok
        /\ LET Holds(text, mappings) ==
                \A k \in DOMAIN mappings :
                    NoNamespace(mappings[k]) =>
                        TitleCells(text)[2 * k] = <<"<td title=", "", ">", "", "</td>">>
           IN Holds(result.v, Mappings(analyzed))

\* The connected observers and the running URL polls of the page.
Observers == Cardinality({i \in DOMAIN browser.closures : browser.closures[i].observer})
Timers == Cardinality({i \in DOMAIN browser.closures : browser.closures[i].urlCheckInterval})

\* No toggle of the page has more than one click listener.
BoundOnce == \A n \in Toggles(PageDocuments[browser.page]) : browser.handlers[n] <= 1

\* C16 as stated: after any sequence of page loads, DOM mutations, location changes and
\* URL polls no toggle has more than one click listener, and the observers and the
\* polling timers are no more than the scripts of one page, however many transitions
\* there were.
C16_NoAccumulation ==
    /\ BoundOnce
    /\ Observers <= MaxTables
    /\ Timers <= MaxTables

\* The detail rows of a document, and the checkbox that belongs to a detail row: the
\* one in the resource row just before it.
DetailRowsOf(document) == {n \in DOMAIN document : ".k8s-yaml-row" \in document[n].classes}
CheckboxOf(document, row) ==
    FirstOf({n \in DOMAIN document :
                /\ ".k8s-yaml-checkbox" \in document[n].classes
                /\ document[n].parent # 0
                /\ document[document[n].parent].parent = PreviousSibling(document, row)})

\* C17 as stated: without a scripting runtime a detail row is hidden while its checkbox
\* is unchecked and displayed while it is checked, by the emitted style rules alone.
C17_StyleToggle ==
    (~browser.scripting /\ browser.url > 0) =>
        LET Holds(rules, document) ==
                \A row \in DetailRowsOf(document) :
                    Display(rules, document, row, browser.checked, browser.expanded)
                        = IF CheckboxOf(document, row) \in browser.checked
                          THEN "table-row" ELSE "none"
        IN Holds(StyleRules(PageOf(browser.page)), PageDocuments[browser.page])

\* The table on_files builds from the configuration and the file system of the build.
Discovered ==
    IF config.auto_nav_path = "" \/ ~config.enable_rendering \/ ~isdir(config.auto_nav_path)
    THEN <<>>
    ELSE LET Table(kustomize_dirs) ==
                [normalized_path \in {relpath(d, config.auto_nav_path) : d \in kustomize_dirs} |->
                    CHOOSE d \in kustomize_dirs :
                        relpath(d, config.auto_nav_path) = normalized_path]
         IN Table(_find_kustomize_directories(config.auto_nav_path))

\* From on_files on the table is the one on_files built for the build.
TableOfBuild ==
    phase \notin {"constructed", "configured"} => _kustomize_path_mapping = Discovered

\* C18: the discovery table is filled by on_files, before any page is rendered, and no
\* step of on_nav, on_page_markdown, on_page_context or on_post_build changes it: the
\* table a page render reads is the one on_files built for the build.
C18_TableFrozen ==
    /\ []TableOfBuild
    /\ [][phase \notin {"constructed", "configured"} =>
                _kustomize_path_mapping' = _kustomize_path_mapping]_vars

\* A page render has read an entry of a table that is not empty.
C18_Witness ==
    /\ phase = "returned"
    /\ _kustomize_path_mapping # <<>>
    /\ \E i \in DOMAIN matches : matches[i].resolved.by = "mapping"

\* The directory holds a kustomization file and a README itself.
Qualifies(d) ==
    /\ "kustomization.yaml" \in fs[d] \/ "kustomization.yml" \in fs[d]
    /\ "README.md" \in fs[d]

\* The path of a directory below nav, relative to nav, with forward slashes.
KeyOf == [d \in {"nav", "nav/app", "nav/lib", "nav/app/base"} |->
            CASE d = "nav" -> "."
              [] d = "nav/app" -> "app"
              [] d = "nav/lib" -> "lib"
              [] d = "nav/app/base" -> "app/base"]

\* on_files has walked nav.
Walked ==
    /\ phase \notin {"constructed", "configured"}
    /\ config.auto_nav_path = "nav"
    /\ config.enable_rendering
    /\ "nav" \in DOMAIN fs

RECURSIVE Directives(_)
\* The directives of a text, from left to right and without overlap.
Directives(text) ==
    LET Found(m) ==
            IF ~m.found THEN <<>>
            ELSE <<m>> \o Directives(SubSeq(text, m.end + 1, Len(text)))
    IN Found(FindMatch(text))

\* The directive ended as directory-not-found.
NotFound(x) ==
    x.ret = Ok(YamlBlock(<< <<"# Error: Kustomize directory '", x.token, "' not found">> >>))

\* The directives handled so far are the first directives of the input text, one
\* handling each, and the builder was called once for each of them that did not end as
\* directory-not-found, on the directory it was resolved to.
OncePerDirective ==
    LET Built(x) == ~NotFound(x)
        Holds(directives) ==
            /\ Len(matches) <= Len(directives)
            /\ \A i \in DOMAIN matches :
                /\ matches[i].token = directives[i].group1
                /\ matches[i].body = directives[i].group3
                /\ Built(matches[i]) => matches[i].resolved.found
            /\ calls = BuildsOf(SelectSeq(matches, Built))
    IN Holds(Directives(markdown))

\* C20: in one on_page_markdown call the builder is called at most once per directive
\* of the input text, only for a directive whose directory was resolved, the text put
\* in for a directive is not scanned again, and the call comes to its end: every step
\* of the scan ends the call or shortens the text that is left to scan.
C20_BuildOncePerDirective ==
    /\ []OncePerDirective
    /\ [][phase = "scanning" => (phase' # "scanning" \/ Len(rest') < Len(rest))]_vars

\* The call has returned a text that holds a directive the builder printed, and the
\* builder was called once.
C20_Witness ==
    /\ phase = "returned"
    /\ Len(calls) = 1
    /\ Len(Directives(markdown)) = 1
    /\ FindMatch(result.v).found

\* The page on_files generated for the key of the discovery table.
GeneratedPage(key) == files[page_path(key)]

\* C21: for every directory on_files discovered, the generated page holds exactly one
\* directive, its path token is the key of the directory in the discovery table and
\* its analyze option is true; a finished rendering of that page has resolved the
\* directive through the table to that directory and has run the builder on it.
C21_GeneratedPageDirective ==
    phase \notin {"constructed", "configured"} =>
        \A key \in DOMAIN _kustomize_path_mapping :
            LET page == GeneratedPage(key)
                found == Directives(page)
            IN /\ Len(found) = 1
               /\ found[1].group1 = key
               /\ AnalyzeTrue(found[1].group2)
               /\ (markdown = page /\ phase \in {"returned", "raised"}) =>
                    /\ Len(matches) = 1
                    /\ matches[1].token = key
                    /\ matches[1].resolved =
                            [found |-> TRUE, dir |-> _kustomize_path_mapping[key],
                             by |-> "mapping"]
                    /\ calls = << <<"kustomize", "build", _kustomize_path_mapping[key]>> >>

====
